---- MODULE Spec2Model ----
(***************************************************************************)
(* Model of go-rst: the indentation-aware Scanner (src/parser.go, package  *)
(* parser, lines 1119-1477), the line framer (src/parser/line_scanner.go)  *)
(* and the structure-model parser (src/parser.go, lines 195-732).          *)
(*                                                                         *)
(* Text is modelled at byte level: a line is a sequence of byte codes      *)
(* (32 = space, 9 = tab, 58 = ':' ...), as the Go code indexes strings.    *)
(***************************************************************************)
EXTENDS Integers, Sequences, FiniteSets, TLC

\* ---------------------------------------------------------------- bounds
\* Number of physical lines an input may hold.
MaxLines == 3
\* Deepest leading indentation (in spaces) of a sample line.
MaxIndent == 3
\* Largest n a test client passes to PushIndent.
MaxPush == 2
\* A test client stops calling PushIndent once the stack holds this many levels.
MaxDepth == 3
\* Longest text of a token handed to detectEnumeratedListItem on its own.
MaxData == 4
\* Number of closure calls made on the scopes of a structure model on their own.
MaxCalls == 3
\* Length of the raw byte strings given to the line framer.
MaxRaw == 4
\* Number of PushIndent and LazyIndent calls of the client whose tokens are counted.
MaxFeedback == 2

VARIABLES
    \* Scanner fields (src/parser.go:1158-1177)
    lineScanner,   \* state of the bufio.Scanner: "open", "eof" or "err"
    line,          \* s.line
    indents,       \* s.indents
    lateIndent,    \* s.lateIndent
    literal,       \* s.literal
    lazyIndent,    \* s.lazyIndent
    peek,          \* s.peek
    nextIndent,    \* s.nextIndent
    nextToken,     \* s.nextToken
    \* outcome of the run
    panic,         \* "" or the message of the Go panic that aborted the run
    \* observation of the last Scanner call
    op,            \* name of the last Scanner method called by the client
    ret,           \* token that call returned (Nil when it returns nothing)
    emit,          \* token produced by Scanner.next during that call (Nil if none)
    was,           \* the Scanner, op, ret and emit as they were before that call
    terminal,      \* first EOF or ERROR token type Read returned, and the
                   \* PushIndent/LazyIndent calls made since
    scanned,       \* the framed line the last call fetched, its kind, the kind before
    input,         \* the framed lines ParseFragment has read so far
    \* ParseFragment
    frames,        \* call stack of the parser, innermost activation last
    fragment,      \* the Fragment ParseFragment returned, NoFragment before
    detected,      \* what detectEnumeratedListItem, called on its own, returned
    calls,         \* the closures of a structure model called on their own, in order
    framer,        \* a bufio.Scanner splitting raw bytes with splitRSTLines on its own
    tally          \* the indenting and dedenting tokens and the feedback calls counted

scannerVars == <<lineScanner, line, indents, lateIndent, literal, lazyIndent,
                 peek, nextIndent, nextToken>>
obsVars == <<panic, op, ret, emit, was, terminal, scanned>>
parserVars == <<frames, fragment, input, detected, calls, framer, tally>>
vars == <<scannerVars, obsVars, parserVars>>

\* ---------------------------------------------------------------- tokens
Token(t, d, l, c) == [Type |-> t, Data |-> d, Line |-> l, Column |-> c]

\* A nil *Token.
Nil == Token("nil", <<>>, 0, 0)

TokenTypes == {"INVALID", "LINE", "BLANK", "LITERAL", "INDENT", "DEDENT",
               "LATE_INDENT", "EOF", "ERROR"}

\* strings.Repeat(" ", n)
RECURSIVE Repeat(_, _)
Repeat(b, n) == IF n <= 0 THEN <<>> ELSE <<b>> \o Repeat(b, n - 1)

\* Text of the error a failed read reports (lineScanner.Err().Error()).
ErrText == <<69, 114, 114>>

\* ---------------------------------------------------------------- line framer
\* A splitRSTLines cutting spaces and tabs only.
RECURSIVE splitRSTLines_blanksOnly(_)
splitRSTLines_blanksOnly(token) ==
    IF Len(token) = 0 THEN token
    ELSE IF token[Len(token)] \in {9, 32}
         THEN splitRSTLines_blanksOnly(SubSeq(token, 1, Len(token) - 1))
         ELSE token

\* splitRSTLines: the line bufio.ScanLines framed, minus trailing
\* backspace, tab, space, form feed and vertical tab.
RECURSIVE splitRSTLines(_)
splitRSTLines(token) ==
    IF Len(token) = 0 THEN token
    ELSE IF token[Len(token)] \in {8, 9, 32, 12, 11}
         THEN splitRSTLines(SubSeq(token, 1, Len(token) - 1))
         ELSE token

\* ---------------------------------------------------------------- Scanner
\* The Scanner struct as a record, so that its methods are operators.
S == [lineScanner |-> lineScanner, line |-> line, indents |-> indents,
      lateIndent |-> lateIndent, literal |-> literal, lazyIndent |-> lazyIndent,
      peek |-> peek, nextIndent |-> nextIndent, nextToken |-> nextToken,
      panic |-> panic]

\* Writes a Scanner record back to the fields.
Set(s) ==
    /\ lineScanner' = s.lineScanner
    /\ line' = s.line
    /\ indents' = s.indents
    /\ lateIndent' = s.lateIndent
    /\ literal' = s.literal
    /\ lazyIndent' = s.lazyIndent
    /\ peek' = s.peek
    /\ nextIndent' = s.nextIndent
    /\ nextToken' = s.nextToken
    /\ panic' = s.panic

\* A scanner counting its lines from zero.
NewScanner_lineZero ==
    [lineScanner |-> "open", line |-> 0, indents |-> <<0>>,
     lateIndent |-> FALSE, literal |-> FALSE, lazyIndent |-> FALSE,
     peek |-> [Type |-> "nil", Data |-> <<>>, Line |-> 0, Column |-> 0],
     nextIndent |-> 0,
     nextToken |-> [Type |-> "nil", Data |-> <<>>, Line |-> 0, Column |-> 0],
     panic |-> ""]

NewScanner ==
    [lineScanner |-> "open", line |-> 1, indents |-> <<0>>,
     lateIndent |-> FALSE, literal |-> FALSE, lazyIndent |-> FALSE,
     peek |-> Nil, nextIndent |-> 0, nextToken |-> Nil, panic |-> ""]

currentIndent(s) == s.indents[Len(s.indents)]

\* The leading-whitespace loop of scan: a space counts 1, a tab advances to
\* the next multiple of 8.
RECURSIVE leadingIndent(_, _)
leadingIndent(data, indent) ==
    IF Len(data) = 0 THEN [data |-> data, indent |-> indent]
    ELSE IF data[1] = 32 THEN leadingIndent(Tail(data), indent + 1)
    ELSE IF data[1] = 9 THEN leadingIndent(Tail(data), indent + (8 - (indent % 8)))
    ELSE [data |-> data, indent |-> indent]

\* unicode.IsSpace on the single-byte characters.
IsSpace(b) == b \in {9, 10, 11, 12, 13, 32}

RECURSIVE TrimLeft(_)
TrimLeft(d) == IF Len(d) > 0 /\ IsSpace(d[1]) THEN TrimLeft(Tail(d)) ELSE d

RECURSIVE TrimRight(_)
TrimRight(d) ==
    IF Len(d) > 0 /\ IsSpace(d[Len(d)]) THEN TrimRight(SubSeq(d, 1, Len(d) - 1)) ELSE d

\* strings.TrimSpace
TrimSpace(d) == TrimRight(TrimLeft(d))

\* data ends with the literal-block marker "::"
endsWithMarker(data) ==
    Len(data) >= 2 /\ data[Len(data) - 1] = 58 /\ data[Len(data)] = 58

\* The visible text of a line that ends with "::" and is longer than the marker.
stripMarker(data) ==
    IF data[Len(data) - 2] # 32 /\ data[Len(data) - 2] # 9
    THEN SubSeq(data, 1, Len(data) - 1)
    ELSE SubSeq(data, 1, Len(data) - 2)

\* scanText, were a blank line to report its own indentation.
scanText_blankAtIndent(s, trimmed, indent, l) ==
    IF Len(trimmed) = 0
    THEN [s EXCEPT !.nextIndent = indent,
                   !.nextToken = Token("BLANK", trimmed, l, 1)]
    ELSE [s EXCEPT !.nextIndent = indent,
                   !.nextToken = Token("LINE", trimmed, l, indent + 1)]

\* scan, the tail of its line branch: the LINE or BLANK token of a line whose
\* visible text is `trimmed`.
scanText(s, trimmed, indent, l) ==
    IF Len(trimmed) = 0
    THEN [s EXCEPT !.nextIndent = currentIndent(s),
                   !.nextToken = Token("BLANK", trimmed, l, 1)]
    ELSE [s EXCEPT !.nextIndent = indent,
                   !.nextToken = Token("LINE", trimmed, l, indent + 1)]

\* scanMarker, were the marker always dropped whole.
scanMarker_dropsBoth(s, data, indent, l) ==
    IF Len(data) < 3
    THEN [s EXCEPT !.literal = TRUE,
                   !.nextIndent = indent,
                   !.nextToken = Token("BLANK", <<>>, l, 1)]
    ELSE scanText([s EXCEPT !.literal = TRUE],
                  TrimSpace(SubSeq(data, 1, Len(data) - 2)), indent, l)

\* scan, for a line that ends with the literal-block marker.
scanMarker(s, data, indent, l) ==
    IF Len(data) < 3
    THEN [s EXCEPT !.literal = TRUE,
                   !.nextIndent = indent,
                   !.nextToken = Token("BLANK", <<>>, l, 1)]
    ELSE scanText([s EXCEPT !.literal = TRUE], TrimSpace(stripMarker(data)), indent, l)

\* scanData, were a literal line to lose its leading whitespace.
scanData_literalTrimmed(s, whole, data, indent, l) ==
    IF s.literal /\ Len(data) > 0 /\ indent > currentIndent(s)
    THEN [s EXCEPT !.nextIndent = currentIndent(s),
                   !.nextToken = Token("LITERAL", data, l, 1)]
    ELSE IF endsWithMarker(data) THEN scanMarker(s, data, indent, l)
    ELSE scanText(s, TrimSpace(data), indent, l)

\* scan, once the leading whitespace is measured: `data` is the line without
\* it, `indent` its width.
scanData(s, whole, data, indent, l) ==
    IF s.literal /\ Len(data) > 0 /\ indent > currentIndent(s)
    THEN [s EXCEPT !.nextIndent = currentIndent(s),
                   !.nextToken = Token("LITERAL", whole, l, 1)]
    ELSE IF endsWithMarker(data) THEN scanMarker(s, data, indent, l)
    ELSE scanText(s, TrimSpace(data), indent, l)

scanMeasured(s, whole, ld, l) == scanData(s, whole, ld.data, ld.indent, l)

\* scan, for a line the framer delivered: `s` already counts the line,
\* `l` is the line number the token reports.
scanLine(s, whole, l) == scanMeasured(s, whole, leadingIndent(whole, 0), l)

\* What lineScanner.Scan() answers: a framed line, end of input, or an error.
ScanLine(text) == [ok |-> TRUE, err |-> FALSE, text |-> text]
ScanEOF == [ok |-> FALSE, err |-> FALSE, text |-> <<>>]
ScanErr == [ok |-> FALSE, err |-> TRUE, text |-> <<>>]

\* scan with the error branch resetting nextIndent as the EOF branch does.
scan_errorAtBase(s, in) ==
    IF s.nextToken # Nil THEN s
    ELSE IF in.ok
         THEN scanLine([s EXCEPT !.line = s.line + 1], in.text, s.line)
         ELSE IF in.err
              THEN [s EXCEPT !.lineScanner = "err",
                             !.nextIndent = 0,
                             !.nextToken = Token("ERROR", ErrText, s.line, 1)]
              ELSE [s EXCEPT !.lineScanner = "eof",
                             !.nextIndent = 0,
                             !.nextToken = Token("EOF", <<>>, s.line, 1)]

\* scan with the EOF branch keeping the current indentation as the error
\* branch does.
scan_eofKeepsIndent(s, in) ==
    IF s.nextToken # Nil THEN s
    ELSE IF in.ok
         THEN scanLine([s EXCEPT !.line = s.line + 1], in.text, s.line)
         ELSE IF in.err
              THEN [s EXCEPT !.lineScanner = "err",
                             !.nextIndent = currentIndent(s),
                             !.nextToken = Token("ERROR", ErrText, s.line, 1)]
              ELSE [s EXCEPT !.lineScanner = "eof",
                             !.nextIndent = currentIndent(s),
                             !.nextToken = Token("EOF", <<>>, s.line, 1)]

\* scan: does nothing while a token is pending, else asks the line scanner.
scan(s, in) ==
    IF s.nextToken # Nil THEN s
    ELSE IF in.ok
         THEN scanLine([s EXCEPT !.line = s.line + 1], in.text, s.line)
         ELSE IF in.err
              THEN [s EXCEPT !.lineScanner = "err",
                             !.nextIndent = currentIndent(s),
                             !.nextToken = Token("ERROR", ErrText, s.line, 1)]
              ELSE [s EXCEPT !.lineScanner = "eof",
                             !.nextIndent = 0,
                             !.nextToken = Token("EOF", <<>>, s.line, 1)]

\* PushIndent taking n as the level itself instead of the distance from the top.
PushIndent_absolute(s, n) ==
    IF s.peek # Nil
    THEN [s EXCEPT !.panic = "cannot call PushIndent with an active peek"]
    ELSE [s EXCEPT !.indents = Append(@, n)]

PushIndent(s, n) ==
    IF s.peek # Nil
    THEN [s EXCEPT !.panic = "cannot call PushIndent with an active peek"]
    ELSE [s EXCEPT !.indents = Append(@, currentIndent(s) + n)]

\* LazyIndent without its assertion.
LazyIndent_unchecked(s) == [s EXCEPT !.lazyIndent = TRUE]

LazyIndent(s) ==
    IF s.peek # Nil
    THEN [s EXCEPT !.panic = "cannot call LazyIndent with an active peek"]
    ELSE [s EXCEPT !.lazyIndent = TRUE]

\* The test with a line at the level of the stack top taking the lazy indent.
lazyMisses_strict(s) == s.nextToken.Type # "LINE" \/ s.nextIndent < currentIndent(s)

\* The test of next that a pending lazy indent does not apply.
lazyMisses(s) == s.nextToken.Type # "LINE" \/ s.nextIndent <= currentIndent(s)

\* The synthetic DEDENT of next: it reports the pending token's position.
dedentToken(s) == Token("DEDENT", <<>>, s.nextToken.Line, s.nextToken.Column)

\* The push of next reporting INDENT whether or not lateIndent is armed.
emitIndent_plain(s) ==
    [s |-> [s EXCEPT !.indents = Append(@, s.nextIndent), !.lateIndent = FALSE],
     tok |-> Token("INDENT", Repeat(32, s.nextIndent), s.nextToken.Line, 1)]

\* The push of next leaving lateIndent armed after LATE_INDENT.
emitIndent_staysArmed(s) ==
    [s |-> [s EXCEPT !.indents = Append(@, s.nextIndent)],
     tok |-> Token(IF s.lateIndent THEN "LATE_INDENT" ELSE "INDENT",
                   Repeat(32, s.nextIndent), s.nextToken.Line, 1)]

\* next, case s.nextIndent > currentIndent: push and emit INDENT or LATE_INDENT.
emitIndent(s) ==
    [s |-> [s EXCEPT !.indents = Append(@, s.nextIndent), !.lateIndent = FALSE],
     tok |-> Token(IF s.lateIndent THEN "LATE_INDENT" ELSE "INDENT",
                   Repeat(32, s.nextIndent), s.nextToken.Line, 1)]

\* Whether the pop of next arms lateIndent: the new top is still below the line.
armsLateIndent(popped, ni) == ni > popped[Len(popped)]

\* next, case s.nextIndent < currentIndent, with the stack already popped.
emitPopped(s, popped) ==
    IF Len(popped) = 0
    THEN [s |-> [s EXCEPT !.indents = popped, !.panic = "index out of range"],
          tok |-> Nil]
    ELSE [s |-> [s EXCEPT !.indents = popped,
                          !.lateIndent = IF armsLateIndent(popped, s.nextIndent)
                                         THEN TRUE ELSE @],
          tok |-> dedentToken(s)]

\* A DEDENT that pops two levels.
emitDedent_popsTwo(s) == emitPopped(s, SubSeq(s.indents, 1, Len(s.indents) - 2))

\* next, case s.nextIndent < currentIndent: pop one level and emit DEDENT.
emitDedent(s) == emitPopped(s, SubSeq(s.indents, 1, Len(s.indents) - 1))

\* next, default case: hand out the real token and let scan fetch another.
emitReal(s) == [s |-> [s EXCEPT !.nextToken = Nil], tok |-> s.nextToken]

\* The switch of next with its second case taken at equal indentation too.
adjustIndent_popsAtEqual(s) ==
    IF s.nextIndent > currentIndent(s) THEN emitIndent(s)
    ELSE IF s.nextIndent <= currentIndent(s) THEN emitDedent(s)
    ELSE emitReal(s)

\* The switch of next.
adjustIndent(s) ==
    IF s.nextIndent > currentIndent(s) THEN emitIndent(s)
    ELSE IF s.nextIndent < currentIndent(s) THEN emitDedent(s)
    ELSE emitReal(s)

\* The prologue with a missed lazy indent given up without a DEDENT.
lazyCleared_silentMiss(s) ==
    IF lazyMisses(s)
    THEN adjustIndent(s)
    ELSE adjustIndent(PushIndent(s, s.nextIndent))

\* The lazy-indent prologue of next, the flag already cleared.
lazyCleared(s) ==
    IF lazyMisses(s)
    THEN [s |-> s, tok |-> dedentToken(s)]
    ELSE adjustIndent(PushIndent(s, s.nextIndent))

\* The lazy-indent prologue of next.
lazyStep(s) == lazyCleared([s EXCEPT !.lazyIndent = FALSE])

\* next, after scan has synchronised nextToken and nextIndent.
nextSynced(s) == IF s.lazyIndent THEN lazyStep(s) ELSE adjustIndent(s)

next(s, in) == nextSynced(scan(s, in))

\* Peek, when nothing is buffered: the token next produced is buffered.
peekNext(r) == [s |-> [r.s EXCEPT !.peek = r.tok], tok |-> r.tok, emit |-> r.tok]

\* Peek without its buffer test: every call asks next for a token.
Peek_unbuffered(s, in) == peekNext(next(s, in))

\* Peek: the buffered token, or the next one, which it buffers.
Peek(s, in) ==
    IF s.peek = Nil THEN peekNext(next(s, in))
    ELSE [s |-> s, tok |-> s.peek, emit |-> Nil]

\* Read, after its Peek: the buffer is emptied.
readPeeked(r) == [s |-> [r.s EXCEPT !.peek = Nil], tok |-> r.tok, emit |-> r.emit]

Read(s, in) == readPeeked(Peek(s, in))

\* ---------------------------------------------------------------- inputs
Ln(i, content) == Repeat(32, i) \o content

\* Contents of the marker lines a Scanner test client reads:
\* "::", "a::", "a ::".
ScanContents == {<<58, 58>>, <<97, 58, 58>>, <<97, 32, 58, 58>>}

\* Raw lines (before framing): blank, "a" at every indentation, the marker
\* lines at the margin and one column in, a tab-indented line and lines with
\* trailing whitespace.
ScanLines ==
    {<<>>, <<9, 97>>, <<32, 97, 32>>, <<97, 32, 58, 58, 32>>, <<32, 32>>}
    \cup {Ln(i, <<97>>) : i \in 0..MaxIndent}
    \cup {Ln(i, c) : i \in 0..1, c \in ScanContents}

\* The answers lineScanner.Scan() can give to the call scan makes from `s`,
\* for input lines drawn from `lines`; NoScan when scan will not call it.
NoScan == [ok |-> FALSE, err |-> FALSE, text |-> <<0>>]
ScanAnswers(s, lines) ==
    IF s.peek # Nil \/ s.nextToken # Nil THEN {NoScan}
    ELSE IF s.lineScanner = "eof" THEN {ScanEOF}
    ELSE IF s.lineScanner = "err" THEN {ScanErr}
    ELSE {ScanEOF, ScanErr}
         \cup (IF s.line <= MaxLines THEN {ScanLine(splitRSTLines(l)) : l \in lines} ELSE {})

\* The value of `fragment` while ParseFragment has not returned.
NoFragment == [returned |-> FALSE]

\* detectEnumeratedListItem was not called on its own.
NotCalled == [called |-> FALSE, seq |-> 0, marker |-> 0, ordinal |-> 0, indent |-> 0]

\* Nothing was counted.
NoTally == [up |-> 0, down |-> 0, calls |-> 0, again |-> 0, late |-> 0,
            last |-> "nil", eof |-> "no"]

\* No bufio.Scanner was run on its own.
NotFramed ==
    [run |-> FALSE, raw |-> <<>>, unread |-> <<>>, buf |-> <<>>,
     atEOF |-> FALSE, got |-> <<>>, done |-> FALSE]

\* ---------------------------------------------------------------- observation
Snapshot == [s |-> S, op |-> op, ret |-> ret, emit |-> emit]

\* No line fetched yet.
NoLine == [ok |-> FALSE, text |-> <<>>, kind |-> "nil", after |-> "nil"]

\* How scan, called from `s`, treats the framed line `text`: as a line of a
\* literal block, as a line that ends with the marker "::", or as neither.
lineKind(s, text) ==
    IF scanLine(s, text, s.line).nextToken.Type = "LITERAL" THEN "LITERAL"
    ELSE IF endsWithMarker(leadingIndent(text, 0).data) THEN "marker"
    ELSE "plain"

\* Before the first call.
Unobserved ==
    /\ op = "NewScanner"
    /\ ret = Nil
    /\ emit = Nil
    /\ was = [s |-> NewScanner, op |-> "none", ret |-> Nil, emit |-> Nil]
    /\ scanned = NoLine
    /\ terminal = [Type |-> "", feedback |-> {}]

\* Records a call of method o that returned r, next having produced e and
\* the line scanner having answered `in` to scan.
Observe(o, r, e, in) ==
    /\ scanned' = IF in.ok
                  THEN [ok |-> TRUE, text |-> in.text, kind |-> lineKind(S, in.text),
                        after |-> scanned.kind]
                  ELSE [scanned EXCEPT !.ok = FALSE, !.text = <<>>]
    /\ op' = o
    /\ ret' = r
    /\ emit' = e
    /\ was' = Snapshot
    /\ terminal' =
         IF terminal.Type = ""
         THEN IF o = "Read" /\ r.Type \in {"EOF", "ERROR"}
              THEN [Type |-> r.Type, feedback |-> {}]
              ELSE terminal
         ELSE IF o \in {"PushIndent", "LazyIndent"}
              THEN [terminal EXCEPT !.feedback = @ \cup {o}]
              ELSE terminal

\* The same, for a call that fetches no line.
Obs(o, r, e) == Observe(o, r, e, NoScan)

\* ---------------------------------------------------------------- Scanner test client
\* A client that calls the four public methods in any order, as TestScanner
\* does for its marker lines.
Fresh(s) ==
    /\ lineScanner = s.lineScanner
    /\ line = s.line
    /\ indents = s.indents
    /\ lateIndent = s.lateIndent
    /\ literal = s.literal
    /\ lazyIndent = s.lazyIndent
    /\ peek = s.peek
    /\ nextIndent = s.nextIndent
    /\ nextToken = s.nextToken
    /\ panic = s.panic

InitScanner ==
    /\ Fresh(NewScanner)
    /\ Unobserved
    /\ frames = <<>>
    /\ fragment = NoFragment
    /\ input = <<>>
    /\ detected = NotCalled
    /\ calls = <<>>
    /\ framer = NotFramed
    /\ tally = NoTally

CallRead ==
    /\ panic = ""
    /\ \E in \in ScanAnswers(S, ScanLines) :
         \E r \in {Read(S, in)} :
             Set(r.s) /\ Observe("Read", r.tok, r.emit, in)
    /\ UNCHANGED parserVars

CallPeek ==
    /\ panic = ""
    /\ \E in \in ScanAnswers(S, ScanLines) :
         \E r \in {Peek(S, in)} :
             Set(r.s) /\ Observe("Peek", r.tok, r.emit, in)
    /\ UNCHANGED parserVars

CallPushIndent ==
    /\ panic = ""
    /\ Len(indents) < MaxDepth
    /\ \E n \in 1..MaxPush :
         Set(PushIndent(S, n)) /\ Obs("PushIndent", Nil, Nil)
    /\ UNCHANGED parserVars

CallLazyIndent ==
    /\ panic = ""
    /\ Set(LazyIndent(S)) /\ Obs("LazyIndent", Nil, Nil)
    /\ UNCHANGED parserVars

NextScanner == CallRead \/ CallPeek \/ CallPushIndent \/ CallLazyIndent

SpecScanner == InitScanner /\ [][NextScanner]_vars

\* ---------------------------------------------------------------- document tree
Pos(tok) == [Line |-> tok.Line, Column |-> tok.Column]
NoPos == [Line |-> 0, Column |-> 0]

Error(msg, pos) == [kind |-> "Error", Message |-> msg, Pos |-> pos]
Paragraph(text) == [kind |-> "Paragraph", Text |-> text]
Section(title) == [kind |-> "Section", Title |-> title, Body |-> <<>>, ChildElements |-> <<>>]
\* A nil Attribution is the empty Text.
BlockQuote(quote, attribution) ==
    [kind |-> "BlockQuote", Quote |-> quote, Attribution |-> attribution]
ListItem(body) == [Body |-> body]
BulletList(items) == [kind |-> "BulletList", Items |-> items]
EnumeratedList(items, type, prefix, suffix, first) ==
    [kind |-> "EnumeratedList", Items |-> items, EnumType |-> type,
     EnumPrefix |-> prefix, EnumSuffix |-> suffix, FirstIndex |-> first]
Fragment(body, structure) ==
    [returned |-> TRUE, Body |-> body, ChildElements |-> structure]

\* ---------------------------------------------------------------- marker detection
RuneError == 65533

IsCont(b) == b >= 128 /\ b <= 191

\* utf8.DecodeRuneInString, for the one-, two- and three-byte encodings.
DecodeRuneInString(d) ==
    IF Len(d) = 0 THEN [r |-> RuneError, n |-> 0]
    ELSE IF d[1] < 128 THEN [r |-> d[1], n |-> 1]
    ELSE IF d[1] >= 194 /\ d[1] <= 223 /\ Len(d) >= 2 /\ IsCont(d[2])
         THEN [r |-> (d[1] - 192) * 64 + (d[2] - 128), n |-> 2]
    ELSE IF d[1] >= 224 /\ d[1] <= 239 /\ Len(d) >= 3 /\ IsCont(d[2]) /\ IsCont(d[3])
         THEN [r |-> (d[1] - 224) * 4096 + (d[2] - 128) * 64 + (d[3] - 128), n |-> 3]
    ELSE [r |-> RuneError, n |-> 1]

\* unicode.IsSpace on a rune.
IsSpaceRune(r) ==
    \/ r \in {9, 10, 11, 12, 13, 32, 133, 160, 5760, 8232, 8233, 8239, 8287, 12288}
    \/ (r >= 8192 /\ r <= 8202)

\* data[n:]
From(d, n) == SubSeq(d, n + 1, Len(d))

\* The bullet glyphs: * + - and U+2022, U+2023, U+2043.
BulletRunes == {42, 43, 45, 8226, 8227, 8259}

\* detectBulletListItem reporting no width for a marker that ends its line.
detectBulletListItem_bareZero(tok) ==
    IF tok.Type # "LINE" THEN [marker |-> 0, indent |-> 0]
    ELSE LET first == DecodeRuneInString(tok.Data)
             nxt == DecodeRuneInString(From(tok.Data, first.n))
         IN  IF first.r \notin BulletRunes THEN [marker |-> 0, indent |-> 0]
             ELSE IF nxt.r = RuneError THEN [marker |-> first.r, indent |-> 0]
             ELSE IF IsSpaceRune(nxt.r) THEN [marker |-> first.r, indent |-> first.n + nxt.n]
             ELSE [marker |-> 0, indent |-> 0]

\* detectBulletListItem: (marker, indent), (0, 0) when the token is no marker line.
detectBulletListItem(tok) ==
    IF tok.Type # "LINE" THEN [marker |-> 0, indent |-> 0]
    ELSE LET first == DecodeRuneInString(tok.Data)
             nxt == DecodeRuneInString(From(tok.Data, first.n))
         IN  IF first.r \notin BulletRunes THEN [marker |-> 0, indent |-> 0]
             ELSE IF nxt.r = RuneError THEN [marker |-> first.r, indent |-> first.n]
             ELSE IF IsSpaceRune(nxt.r) THEN [marker |-> first.r, indent |-> first.n + nxt.n]
             ELSE [marker |-> 0, indent |-> 0]

IsDigit(b) == b >= 48 /\ b <= 57

\* The digit loop of detectEnumeratedListItem: the value of `end` when the
\* loop is left, entered with `end` at its condition.  The body increments
\* `end` and so does the loop's post statement.
RECURSIVE digitLoop(_, _)
digitLoop(remain, end) ==
    IF end < Len(remain)
    THEN IF ~IsDigit(remain[end + 1]) THEN end ELSE digitLoop(remain, end + 2)
    ELSE end

\* strconv.Atoi of an unsigned string: ok is FALSE on a non-digit or on "".
RECURSIVE AtoiValue(_)
AtoiValue(num) ==
    IF Len(num) = 0 THEN 0
    ELSE AtoiValue(SubSeq(num, 1, Len(num) - 1)) * 10 + (num[Len(num)] - 48)

Atoi(num) ==
    IF Len(num) > 0 /\ \A i \in 1..Len(num) : IsDigit(num[i])
    THEN [ok |-> TRUE, value |-> AtoiValue(num)]
    ELSE [ok |-> FALSE, value |-> 0]

NotEnumerated == [seq |-> 0, marker |-> 0, ordinal |-> 0, indent |-> 0]

\* enumSeqArabic = '1'; the markers '.', '(' and ')'.
enumSeqArabic == 49
enumMarkerPeriod == 46
enumMarkerParens == 40
enumMarkerRParen == 41

\* detectEnumeratedListItem, after the optional '(' was taken: `remain`
\* starts with a digit, `open` tells whether '(' was seen.
detectAfterParen(remain, open) ==
    LET end == digitLoop(remain, 0)
        num == SubSeq(remain, 1, end - 1)
        rest == From(remain, end - 1)
        indent == (IF open THEN 1 ELSE 0) + end - 1
        n == Atoi(num)
    IN  IF ~n.ok THEN NotEnumerated
        ELSE IF Len(rest) = 0 THEN NotEnumerated
        ELSE LET closePunct == rest[1]
                 marker == IF open THEN (IF closePunct = 41 THEN enumMarkerParens ELSE 0)
                           ELSE IF closePunct = 41 THEN enumMarkerRParen
                           ELSE IF closePunct = 46 THEN enumMarkerPeriod
                           ELSE 0
                 after == Tail(rest)
             IN  IF marker = 0 THEN NotEnumerated
                 ELSE IF Len(after) > 0 /\ after[1] # 32 THEN NotEnumerated
                 ELSE [seq |-> enumSeqArabic, marker |-> marker, ordinal |-> n.value,
                       indent |-> indent + 1 + (IF Len(after) > 0 THEN 1 ELSE 0)]

\* A detectEnumeratedListItem taking a leading letter for an enumerator
\* of the lower-case alphabetic sequence, whatever follows it.
detectEnumeratedListItem_letters(tok) ==
    IF tok.Type # "LINE" THEN NotEnumerated
    ELSE IF Len(tok.Data) < 2 THEN NotEnumerated
    ELSE LET open == tok.Data[1] = 40
             remain == IF open THEN Tail(tok.Data) ELSE tok.Data
         IN  IF IsDigit(remain[1]) THEN detectAfterParen(remain, open)
             ELSE IF remain[1] \in (65..90) \cup (97..122)
             THEN [seq |-> 97, marker |-> 0, ordinal |-> 1, indent |-> 1]
             ELSE NotEnumerated

detectEnumeratedListItem(tok) ==
    IF tok.Type # "LINE" THEN NotEnumerated
    ELSE IF Len(tok.Data) < 2 THEN NotEnumerated
    ELSE LET open == tok.Data[1] = 40
             remain == IF open THEN Tail(tok.Data) ELSE tok.Data
         IN  IF IsDigit(remain[1]) THEN detectAfterParen(remain, open)
             ELSE NotEnumerated

\* The attribution test of parse: "--" followed by a whitespace rune;
\* n is the marker width ncLen + 2, 0 when the line is no attribution.
detectAttribution(tok) ==
    IF tok.Type = "LINE" /\ Len(tok.Data) >= 2 /\ tok.Data[1] = 45 /\ tok.Data[2] = 45
    THEN LET nc == DecodeRuneInString(From(tok.Data, 2))
         IN  IF IsSpaceRune(nc.r) THEN nc.n + 2 ELSE 0
    ELSE 0

\* ---------------------------------------------------------------- Scanner helpers the parser calls
\* SkipBlanks, one turn of its loop: a BLANK token is read, any other token
\* stays peeked.
skipBlank(r) == IF r.tok.Type = "BLANK" THEN readPeeked(r) ELSE r

SkipBlanksTurn(s, in) == skipBlank(Peek(s, in))

\* PushBackSuffix: the token without its first n bytes becomes the peeked
\* token, n columns further right; nothing but a marker leaves a BLANK.
PushBackSuffix(s, tok, n) ==
    [s EXCEPT !.peek = IF Len(tok.Data) <= n
                       THEN Token("BLANK", <<>>, tok.Line, tok.Column + n)
                       ELSE Token("LINE", From(tok.Data, n), tok.Line, tok.Column + n)]

\* Eat: reads the token the caller has just peeked.
Eat(s, in) == Read(s, in)

\* ---------------------------------------------------------------- parser activations
\* One activation of parseStructureModel, parseBody or parseBlockQuotes
\* (each runs structureModelParser.parse over its own closures), of
\* parseBulletList or of parseEnumeratedList, with its locals.
Frame(fn, endType) ==
    [fn |-> fn, endType |-> endType, pc |-> "loop",
     body |-> <<>>, structure |-> <<>>, mode |-> "body",
     quotes |-> <<>>, current |-> 0,
     text |-> <<>>, startPos |-> NoPos,
     marker |-> 0, seq |-> 0, start |-> 0, nextOrd |-> 0, items |-> <<>>]

ListFrame(fn, seq, marker, start) ==
    [Frame(fn, "none") EXCEPT !.pc = "items", !.seq = seq, !.marker = marker,
                              !.start = start, !.nextOrd = start]

ParseFns == {"parseStructureModel", "parseBody", "parseBlockQuotes"}

\* ensureCurrent of parseBlockQuotes; `current` indexes `quotes`, 0 is nil.
ensureCurrent(f) ==
    IF f.current = 0
    THEN [f EXCEPT !.quotes = Append(@, BlockQuote(<<>>, <<>>)),
                   !.current = Len(f.quotes) + 1]
    ELSE f

\* appendStructure, were a scope without structure to drop the element.
appendStructure_dropped(f, elem, pos) ==
    IF f.fn = "parseStructureModel"
    THEN [f EXCEPT !.mode = "structure", !.structure = Append(@, elem)]
    ELSE f

appendStructure(f, elem, pos) ==
    IF f.fn = "parseStructureModel"
    THEN [f EXCEPT !.mode = "structure", !.structure = Append(@, elem)]
    ELSE IF f.fn = "parseBody"
    THEN [f EXCEPT !.body = Append(@, Error("structure elements may not appear here", pos))]
    ELSE LET g == ensureCurrent(f)
         IN  [g EXCEPT !.quotes[g.current].Quote =
                  Append(@, Error("structure elements may not appear here", pos))]

\* appendBody, were a body element still accepted after a section.
appendBody_afterSections(f, elem, pos) ==
    IF f.fn \in {"parseStructureModel", "parseBody"}
    THEN [f EXCEPT !.body = Append(@, elem)]
    ELSE LET g == ensureCurrent(f)
         IN  [g EXCEPT !.quotes[g.current].Quote = Append(@, elem)]

appendBody(f, elem, pos) ==
    IF f.fn = "parseStructureModel"
    THEN IF f.mode = "body"
         THEN [f EXCEPT !.body = Append(@, elem)]
         ELSE [f EXCEPT !.structure =
                   Append(@, Error("body elements may not appear after sections", pos))]
    ELSE IF f.fn = "parseBody"
    THEN [f EXCEPT !.body = Append(@, elem)]
    ELSE LET g == ensureCurrent(f)
         IN  [g EXCEPT !.quotes[g.current].Quote = Append(@, elem)]

\* appendMixed, were a mixed element to open the structure of its scope.
appendMixed_asStructure(f, elem, pos) ==
    IF f.fn = "parseStructureModel"
    THEN [f EXCEPT !.mode = "structure", !.structure = Append(@, elem)]
    ELSE appendBody(f, elem, pos)

appendMixed(f, elem, pos) ==
    IF f.fn = "parseStructureModel" /\ f.mode = "structure"
    THEN [f EXCEPT !.structure = Append(@, elem)]
    ELSE appendBody(f, elem, pos)

\* A blockQuoteBody that appends the wrapping BlockQuote to what it wraps.
blockQuoteBody_keepsContent(f, pos) ==
    IF f.fn \in {"parseStructureModel", "parseBody"}
    THEN [f EXCEPT !.body = Append(@, BlockQuote(f.body, <<>>))]
    ELSE LET g == ensureCurrent(f)
         IN  [g EXCEPT !.quotes[g.current].Quote =
                  Append(@, BlockQuote(g.quotes[g.current].Quote, <<>>))]

blockQuoteBody(f, pos) ==
    IF f.fn = "parseStructureModel"
    THEN IF f.mode = "body"
         THEN [f EXCEPT !.body = <<BlockQuote(f.body, <<>>)>>]
         ELSE [f EXCEPT !.structure =
                   Append(@, Error("block quote cannot terminate here", pos))]
    ELSE IF f.fn = "parseBody"
    THEN [f EXCEPT !.body = <<BlockQuote(f.body, <<>>)>>]
    ELSE LET g == ensureCurrent(f)
         IN  [g EXCEPT !.quotes[g.current].Quote =
                  <<BlockQuote(g.quotes[g.current].Quote, <<>>)>>]

\* appendAttribution of parseBlockQuotes dereferences `current`.
attributionPanics(f) == f.current = 0

\* appendAttribution, were the attributed quote to stay current.
appendAttribution_keepsCurrent(f, elem, pos) ==
    [f EXCEPT !.quotes[f.current].Attribution = elem]

appendAttribution(f, elem, pos) ==
    [f EXCEPT !.quotes[f.current].Attribution = elem, !.current = 0]

RECURSIVE appendAll(_, _, _)
appendAll(f, elems, pos) ==
    IF Len(elems) = 0 THEN f
    ELSE appendAll(appendBody(f, Head(elems), pos), Tail(elems), pos)

\* The two switches that end parseEnumeratedList: "" or the panic message.
enumPanic(f) ==
    IF f.seq \notin {49, 65, 97, 73, 105} THEN "invalid enum seq"
    ELSE IF f.marker \notin {enumMarkerPeriod, enumMarkerParens, enumMarkerRParen}
    THEN "invalid enum marker"
    ELSE ""

enumTypeOf(seq) ==
    IF seq = 49 THEN "arabic"
    ELSE IF seq = 65 THEN "upperalpha"
    ELSE IF seq = 97 THEN "loweralpha"
    ELSE IF seq = 73 THEN "upperroman"
    ELSE "lowerroman"

\* enumList, were every list to count from 1.
enumList_fromOne(f) ==
    EnumeratedList(f.items, enumTypeOf(f.seq),
        IF f.marker = enumMarkerParens THEN "(" ELSE "",
        IF f.marker = enumMarkerPeriod THEN "." ELSE ")",
        1)

\* The EnumeratedList parseEnumeratedList builds from its items.
enumList(f) ==
    EnumeratedList(f.items, enumTypeOf(f.seq),
        IF f.marker = enumMarkerParens THEN "(" ELSE "",
        IF f.marker = enumMarkerPeriod THEN "." ELSE ")",
        f.start)

\* What an activation returns.
Result(f) ==
    IF f.fn = "parseStructureModel" THEN Fragment(f.body, f.structure)
    ELSE IF f.fn = "parseBody" THEN f.body
    ELSE IF f.fn = "parseBlockQuotes" THEN f.quotes
    ELSE IF f.fn = "parseBulletList" THEN BulletList(f.items)
    ELSE enumList(f)

\* The caller's statement after the call: parse appends the quotes or the
\* list, a list appends the item.
Resume(caller, v) ==
    IF caller.pc = "quotes" THEN [appendAll(caller, v, caller.startPos) EXCEPT !.pc = "loop"]
    ELSE IF caller.pc = "list" THEN [appendBody(caller, v, caller.startPos) EXCEPT !.pc = "loop"]
    ELSE [caller EXCEPT !.items = Append(@, ListItem(v)), !.pc = "items"]

top == frames[Len(frames)]

\* The stack after the innermost activation, left as f, returns.
Return(f) ==
    LET rest == SubSeq(frames, 1, Len(frames) - 1)
    IN  IF Len(rest) = 0 THEN rest
        ELSE [rest EXCEPT ![Len(rest)] = Resume(@, Result(f))]

Returns(f) ==
    /\ frames' = Return(f)
    /\ fragment' = IF Len(frames) = 1 THEN Result(f) ELSE fragment
    /\ UNCHANGED <<input, detected, calls, framer, tally>>

Continue(f) ==
    /\ frames' = [frames EXCEPT ![Len(frames)] = f]
    /\ UNCHANGED <<fragment, input, detected, calls, framer, tally>>

\* The same, in a step whose scan was answered `in`.
ContinueReading(f, in) ==
    /\ frames' = [frames EXCEPT ![Len(frames)] = f]
    /\ input' = IF in.ok THEN Append(input, in.text) ELSE input
    /\ UNCHANGED <<fragment, detected, calls, framer, tally>>

Call(f, callee) ==
    /\ frames' = Append([frames EXCEPT ![Len(frames)] = f], callee)
    /\ UNCHANGED <<fragment, input, detected, calls, framer, tally>>

\* dispatch, were attributions looked for in every scope.
dispatch_anyScope(f, tok) ==
    IF tok.Type = f.endType THEN "end"
    ELSE IF tok.Type = "EOF" THEN "eof"
    ELSE IF tok.Type = "INDENT" THEN "indent"
    ELSE IF tok.Type = "LATE_INDENT" THEN "late"
    ELSE IF detectAttribution(tok) # 0 THEN "attribution"
    ELSE IF detectBulletListItem(tok).marker # 0 THEN "bullet"
    ELSE IF detectEnumeratedListItem(tok).seq # 0 THEN "enumerated"
    ELSE IF tok.Type = "LINE" THEN "paragraph"
    ELSE "unexpected"

\* Which branch of the loop of parse takes the peeked token.
dispatch(f, tok) ==
    IF tok.Type = f.endType THEN "end"
    ELSE IF tok.Type = "EOF" THEN "eof"
    ELSE IF tok.Type = "INDENT" THEN "indent"
    ELSE IF tok.Type = "LATE_INDENT" THEN "late"
    ELSE IF f.fn = "parseBlockQuotes" /\ detectAttribution(tok) # 0 THEN "attribution"
    ELSE IF detectBulletListItem(tok).marker # 0 THEN "bullet"
    ELSE IF detectEnumeratedListItem(tok).seq # 0 THEN "enumerated"
    ELSE IF tok.Type = "LINE" THEN "paragraph"
    ELSE "unexpected"

\* ---------------------------------------------------------------- ParseFragment
\* Contents of the marked sample lines ParseFragment reads: "* a", "-- a",
\* "1. a".
ParseContents == {<<42, 32, 97>>, <<45, 45, 32, 97>>, <<49, 46, 32, 97>>}

\* A bare bullet "*", the bullet "+ a" and the enumerators "2. a", "2) a"
\* and "(3) a", at the left margin.
ListLines ==
    {<<42>>, <<43, 32, 97>>,
     <<50, 46, 32, 97>>, <<50, 41, 32, 97>>, <<40, 51, 41, 32, 97>>}

\* Lines that would be an alphabetic and a roman enumerator: "a. a", "I) a".
LetterLines == {<<97, 46, 32, 97>>, <<73, 41, 32, 97>>}

\* The lines of an input: blank, "a" at every indentation, the marked lines
\* at the margin and one column in, the list lines.
ParseLines ==
    {<<>>} \cup ListLines \cup LetterLines
    \cup {Ln(i, <<97>>) : i \in 0..MaxIndent}
    \cup {Ln(i, c) : i \in 0..1, c \in ParseContents}

\* The input of ParseFragment is read without error.
ParseAnswers(s) == ScanAnswers(s, ParseLines) \ {ScanErr}

Running(pcs) == panic = "" /\ Len(frames) > 0 /\ top.pc \in pcs

Dispatching(branch) == Running({"dispatch"}) /\ dispatch(top, peek) = branch

Panics(msg) ==
    /\ panic' = msg
    /\ UNCHANGED <<scannerVars, op, ret, emit, was, terminal, scanned, parserVars>>

InitParser ==
    /\ Fresh(NewScanner)
    /\ Unobserved
    /\ frames = <<Frame("parseStructureModel", "EOF")>>
    /\ fragment = NoFragment
    /\ input = <<>>
    /\ detected = NotCalled
    /\ calls = <<>>
    /\ framer = NotFramed
    /\ tally = NoTally

\* p.SkipBlanks() and the Peek after it, at the head of the loops of parse,
\* parseBulletList and parseEnumeratedList.
SkipBlanks ==
    /\ Running({"loop", "items"})
    /\ \E in \in ParseAnswers(S) :
         \E r \in {SkipBlanksTurn(S, in)} :
             /\ Set(r.s)
             /\ Observe(IF r.tok.Type = "BLANK" THEN "Read" ELSE "Peek", r.tok, r.emit, in)
             /\ ContinueReading(IF r.tok.Type = "BLANK" THEN top
                                ELSE [top EXCEPT !.pc = IF top.pc = "loop" THEN "dispatch"
                                                        ELSE "check"],
                                in)

\* parse leaves its loop: the terminator is consumed and the scope returns;
\* EOF inside a nested scope leaves an Error and is not consumed.
ParseEnd ==
    /\ Running({"dispatch"}) /\ dispatch(top, peek) \in {"end", "eof"}
    /\ IF dispatch(top, peek) = "end"
       THEN \E r \in {Read(S, NoScan)} :
                Set(r.s) /\ Obs("Read", r.tok, r.emit) /\ Returns(top)
       ELSE /\ Returns(appendMixed(top, Error("unexpected EOF", Pos(peek)), Pos(peek)))
            /\ UNCHANGED <<scannerVars, obsVars>>

\* parse: INDENT calls parseBlockQuotes, which reads the INDENT.
ParseBlockQuotes ==
    /\ Dispatching("indent")
    /\ \E r \in {Read(S, NoScan)} :
           IF r.tok.Type # "INDENT"
           THEN Panics("parseBlockQuote called when block quote can't start")
           ELSE /\ Set(r.s) /\ Obs("Read", r.tok, r.emit)
                /\ Call([top EXCEPT !.pc = "quotes", !.startPos = Pos(peek)],
                        Frame("parseBlockQuotes", "DEDENT"))

\* parse: LATE_INDENT wraps what the scope has gathered in a BlockQuote.
ParseLateIndent ==
    /\ Dispatching("late")
    /\ \E r \in {Read(S, NoScan)} :
           /\ Set(r.s) /\ Obs("Read", r.tok, r.emit)
           /\ Continue([blockQuoteBody(top, Pos(peek)) EXCEPT !.pc = "loop"])

\* parse: an attribution line is read, its marker width pushed and its
\* remainder pushed back for parseText.
ParseAttribution ==
    /\ Dispatching("attribution")
    /\ \E n \in {detectAttribution(peek)}, r \in {Read(S, NoScan)} :
         \E s1 \in {PushIndent(r.s, n)} :
           IF s1.panic # "" THEN Panics(s1.panic)
           ELSE /\ Set(PushBackSuffix(s1, r.tok, n))
                /\ Obs("PushBackSuffix", Nil, r.emit)
                /\ Continue([top EXCEPT !.pc = "attribution", !.text = <<>>,
                                        !.startPos = Pos(r.tok)])

\* parse: a bullet marker line calls parseBulletList.
ParseBulletList ==
    /\ Dispatching("bullet")
    /\ Call([top EXCEPT !.pc = "list", !.startPos = Pos(peek)],
            ListFrame("parseBulletList", 0, detectBulletListItem(peek).marker, 0))
    /\ UNCHANGED <<scannerVars, obsVars>>

\* parse: an enumerator line calls parseEnumeratedList.
ParseEnumeratedList ==
    /\ Dispatching("enumerated")
    /\ \E d \in {detectEnumeratedListItem(peek)} :
           Call([top EXCEPT !.pc = "list", !.startPos = Pos(peek)],
                ListFrame("parseEnumeratedList", d.seq, d.marker, d.ordinal))
    /\ UNCHANGED <<scannerVars, obsVars>>

\* parse: any other LINE starts a paragraph; parseText reads it.
ParseParagraph ==
    /\ Dispatching("paragraph")
    /\ \E r \in {Read(S, NoScan)} :
           /\ Set(r.s) /\ Obs("Read", r.tok, r.emit)
           /\ Continue([top EXCEPT !.pc = "paragraph", !.text = <<r.tok.Data>>,
                                   !.startPos = Pos(peek)])

\* parse: the fallback reads one token and leaves an Error.
ParseUnexpected ==
    /\ Dispatching("unexpected")
    /\ \E r \in {Read(S, NoScan)} :
           /\ Set(r.s) /\ Obs("Read", r.tok, r.emit)
           /\ Continue([appendMixed(top, Error("unexpected token: " \o peek.Type, Pos(peek)),
                                    Pos(peek))
                        EXCEPT !.pc = "loop"])

\* A parseText keeping only the first byte of each line it reads.
readLine_firstByte(r) ==
    IF r.tok.Type = "LINE"
    THEN [readPeeked(r) EXCEPT !.tok.Data = SubSeq(@, 1, 1)]
    ELSE r

\* parseText reads the peeked token when it is a LINE.
readLine(r) == IF r.tok.Type = "LINE" THEN readPeeked(r) ELSE r

\* parseText, one turn of its loop: a LINE is read and kept; any other
\* token stays peeked and ends the text.  A paragraph is then appended.
ParseText ==
    /\ Running({"paragraph", "attribution"})
    /\ \E in \in ParseAnswers(S) :
         \E r \in {readLine(Peek(S, in))} :
             /\ Set(r.s)
             /\ Observe(IF r.tok.Type = "LINE" THEN "Read" ELSE "Peek", r.tok, r.emit, in)
             /\ ContinueReading(
                  IF r.tok.Type = "LINE" THEN [top EXCEPT !.text = Append(@, r.tok.Data)]
                  ELSE IF top.pc = "paragraph"
                  THEN [appendBody(top, Paragraph(top.text), top.startPos)
                        EXCEPT !.pc = "loop"]
                  ELSE [top EXCEPT !.pc = "dedent"],
                  in)

\* parse: after the attribution text, the DEDENT of the pushed indent is
\* eaten (or an Error left) and the attribution closes the current quote.
ParseAttributionEnd ==
    /\ Running({"dedent"})
    /\ \E f \in {IF peek.Type = "DEDENT" THEN top
                 ELSE appendMixed(top, Error("missing dedent after attribution",
                                             top.startPos), top.startPos)} :
           IF attributionPanics(f)
           THEN Panics("invalid memory address or nil pointer dereference")
           ELSE /\ Continue([appendAttribution(f, top.text, top.startPos)
                             EXCEPT !.pc = "loop"])
                /\ IF peek.Type = "DEDENT"
                   THEN \E r \in {Eat(S, NoScan)} :
                            Set(r.s) /\ Obs("Read", r.tok, r.emit)
                   ELSE UNCHANGED <<scannerVars, obsVars>>

\* The item of a list with the marker width pushed before the marker line is read.
ItemStarts_pushFirst(indent) ==
    \E s0 \in {PushIndent(S, indent)} :
      IF s0.panic # "" THEN Panics(s0.panic)
      ELSE \E r \in {Read(s0, NoScan)} :
             /\ Set(PushBackSuffix(r.s, r.tok, indent))
             /\ Obs("PushBackSuffix", Nil, r.emit)
             /\ Call([top EXCEPT !.pc = "item", !.nextOrd = @ + 1],
                     Frame("parseBody", "DEDENT"))

\* ItemStarts, were the marker width not pushed.
ItemStarts_noPush(indent) ==
    \E r \in {Read(S, NoScan)} :
        /\ Set(PushBackSuffix(r.s, r.tok, indent))
        /\ Obs("PushBackSuffix", Nil, r.emit)
        /\ Call([top EXCEPT !.pc = "item", !.nextOrd = @ + 1],
                Frame("parseBody", "DEDENT"))

\* An item of a list: the marker line is read, the marker width pushed, the
\* rest of the line pushed back, and parseBody called for the item.
ItemStarts(indent) ==
    \E r \in {Read(S, NoScan)} :
      \E s1 \in {PushIndent(r.s, indent)} :
        IF s1.panic # "" THEN Panics(s1.panic)
        ELSE /\ Set(PushBackSuffix(s1, r.tok, indent))
             /\ Obs("PushBackSuffix", Nil, r.emit)
             /\ Call([top EXCEPT !.pc = "item", !.nextOrd = @ + 1],
                     Frame("parseBody", "DEDENT"))

\* bulletContinues, were any bullet character to continue the list.
bulletContinues_anyMarker(f, tok) == detectBulletListItem(tok).marker # 0

bulletContinues(f, tok) == detectBulletListItem(tok).marker = f.marker

\* parseBulletList: the next line carries the list's marker.
BulletItem ==
    /\ Running({"check"}) /\ top.fn = "parseBulletList"
    /\ bulletContinues(top, peek)
    /\ ItemStarts(detectBulletListItem(peek).indent)

\* parseBulletList: any other token ends the list.
BulletListEnd ==
    /\ Running({"check"}) /\ top.fn = "parseBulletList"
    /\ ~bulletContinues(top, peek)
    /\ Returns(top)
    /\ UNCHANGED <<scannerVars, obsVars>>

\* enumContinues, were the ordinal not compared.
enumContinues_anyOrdinal(f, tok) ==
    LET d == detectEnumeratedListItem(tok)
    IN  d.seq = f.seq /\ d.marker = f.marker

enumContinues(f, tok) ==
    LET d == detectEnumeratedListItem(tok)
    IN  d.seq = f.seq /\ d.marker = f.marker /\ d.ordinal = f.nextOrd

\* parseEnumeratedList: the next line continues the enumeration.
EnumeratedItem ==
    /\ Running({"check"}) /\ top.fn = "parseEnumeratedList"
    /\ enumContinues(top, peek)
    /\ ItemStarts(detectEnumeratedListItem(peek).indent)

\* parseEnumeratedList: any other token ends the list.
EnumeratedListEnd ==
    /\ Running({"check"}) /\ top.fn = "parseEnumeratedList"
    /\ ~enumContinues(top, peek)
    /\ IF enumPanic(top) # "" THEN Panics(enumPanic(top))
       ELSE Returns(top) /\ UNCHANGED <<scannerVars, obsVars>>

NextParser ==
    \/ SkipBlanks
    \/ ParseEnd
    \/ ParseBlockQuotes
    \/ ParseLateIndent
    \/ ParseAttribution
    \/ ParseBulletList
    \/ ParseEnumeratedList
    \/ ParseParagraph
    \/ ParseUnexpected
    \/ ParseText
    \/ ParseAttributionEnd
    \/ BulletItem
    \/ BulletListEnd
    \/ EnumeratedItem
    \/ EnumeratedListEnd

SpecParser == InitParser /\ [][NextParser]_vars

\* ParseFragment run to its end: it is sequential code, whose next step is
\* always taken.
SpecParserFair == InitParser /\ [][NextParser]_vars /\ WF_vars(NextParser)

\* ------------------------------------------- detectEnumeratedListItem alone
\* The bytes a LINE token is made of here: ( ) . space 0 1 a.
DetectBytes == {40, 41, 46, 32, 48, 49, 97}

\* The Data of a LINE token: not empty, no whitespace at either end
\* (scan trims it), at most MaxData bytes.
DetectData ==
    {d \in UNION {[1..n -> DetectBytes] : n \in 1..MaxData} :
        d[1] # 32 /\ d[Len(d)] # 32}

\* A parser that has peeked one token: a LINE, or the BLANK of an empty line.
InitDetect ==
    /\ \E tok \in {Token("LINE", d, 1, 1) : d \in DetectData}
                 \cup {Token("BLANK", <<>>, 1, 1)} :
           Fresh([NewScanner EXCEPT !.peek = tok, !.line = 2])
    /\ Unobserved
    /\ frames = <<>>
    /\ fragment = NoFragment
    /\ input = <<>>
    /\ detected = NotCalled
    /\ calls = <<>>
    /\ framer = NotFramed
    /\ tally = NoTally

\* p.detectEnumeratedListItem(p.Peek())
Detect ==
    /\ ~detected.called
    /\ \E r \in {detectEnumeratedListItem(peek)} :
           detected' = [called |-> TRUE, seq |-> r.seq, marker |-> r.marker,
                        ordinal |-> r.ordinal, indent |-> r.indent]
    /\ UNCHANGED <<scannerVars, obsVars, frames, fragment, input, calls, framer, tally>>

NextDetect == Detect

SpecDetect == InitDetect /\ [][NextDetect]_vars

\* ------------------------------------------- detectBulletListItem alone
\* The bytes a LINE token is made of here: * + - space a, and the bytes of
\* the UTF-8 encodings of U+2022, U+2023 and U+2043.
BulletBytes == {42, 43, 45, 32, 97, 226, 128, 129, 131, 162, 163}

\* The Data of a LINE token: not empty, no whitespace at either end
\* (scan trims it), at most MaxData bytes.
BulletData ==
    {d \in UNION {[1..n -> BulletBytes] : n \in 1..MaxData} :
        d[1] # 32 /\ d[Len(d)] # 32}

\* A parser that has peeked one LINE token.
InitBullet ==
    /\ \E tok \in {Token("LINE", d, 1, 1) : d \in BulletData} :
           Fresh([NewScanner EXCEPT !.peek = tok, !.line = 2])
    /\ Unobserved
    /\ frames = <<>>
    /\ fragment = NoFragment
    /\ input = <<>>
    /\ detected = NotCalled
    /\ calls = <<>>
    /\ framer = NotFramed
    /\ tally = NoTally

\* p.detectBulletListItem(p.Peek())
DetectBullet ==
    /\ ~detected.called
    /\ \E r \in {detectBulletListItem(peek)} :
           detected' = [called |-> TRUE, seq |-> 0, marker |-> r.marker,
                        ordinal |-> 0, indent |-> r.indent]
    /\ UNCHANGED <<scannerVars, obsVars, frames, fragment, input, calls, framer, tally>>

NextBullet == DetectBullet

SpecBullet == InitBullet /\ [][NextBullet]_vars

\* ------------------------------------------- the closures of a scope alone
\* The positions and elements handed to the closures: a Paragraph as body
\* element, a Section as structural element, an Error as mixed element.
CallPositions == {[Line |-> 1, Column |-> 1], [Line |-> 2, Column |-> 3]}
BodyElements == {Paragraph(<<<<97>>>>)}
StructureElements == {Section(<<<<97>>>>)}
MixedElements == {Error("unexpected EOF", pos) : pos \in CallPositions}

\* parseStructureModel has called parseBody or parseBlockQuotes: two scopes,
\* each with the closures it was built with.
InitAppend ==
    /\ Fresh(NewScanner)
    /\ Unobserved
    /\ \E fn \in {"parseBody", "parseBlockQuotes"} :
           frames = <<Frame("parseStructureModel", "EOF"), Frame(fn, "DEDENT")>>
    /\ fragment = NoFragment
    /\ input = <<>>
    /\ detected = NotCalled
    /\ calls = <<>>
    /\ framer = NotFramed
    /\ tally = NoTally

\* A closure call on scope j leaves the scope as g.
Called(j, fn, elem, pos, g) ==
    /\ frames' = [frames EXCEPT ![j] = g]
    /\ calls' = Append(calls, [scope |-> j, fn |-> fn, elem |-> elem, pos |-> pos])
    /\ UNCHANGED <<scannerVars, obsVars, fragment, input, detected, framer, tally>>

Callable == panic = "" /\ Len(calls) < MaxCalls

\* model.appendBody(elem, pos)
AppendBody ==
    /\ Callable
    /\ \E j \in 1..Len(frames), elem \in BodyElements, pos \in CallPositions :
           Called(j, "appendBody", elem, pos, appendBody(frames[j], elem, pos))

\* model.appendStructure(elem, pos)
AppendStructure ==
    /\ Callable
    /\ \E j \in 1..Len(frames), elem \in StructureElements, pos \in CallPositions :
           Called(j, "appendStructure", elem, pos, appendStructure(frames[j], elem, pos))

\* model.appendMixed(elem, pos)
AppendMixed ==
    /\ Callable
    /\ \E j \in 1..Len(frames), elem \in MixedElements :
           Called(j, "appendMixed", elem, elem.Pos, appendMixed(frames[j], elem, elem.Pos))

\* model.blockQuoteBody(pos)
BlockQuoteBody ==
    /\ Callable
    /\ \E j \in 1..Len(frames), pos \in CallPositions :
           Called(j, "blockQuoteBody", Nil, pos, blockQuoteBody(frames[j], pos))

\* model.appendAttribution(elem, pos), which only parseBlockQuotes sets.
AppendAttribution ==
    /\ Callable
    /\ \E j \in 1..Len(frames), pos \in CallPositions :
           /\ frames[j].fn = "parseBlockQuotes"
           /\ IF attributionPanics(frames[j])
              THEN /\ Panics("invalid memory address or nil pointer dereference")
              ELSE Called(j, "appendAttribution", <<<<97>>>>, pos,
                          appendAttribution(frames[j], <<<<97>>>>, pos))

NextAppend ==
    \/ AppendBody
    \/ AppendStructure
    \/ AppendMixed
    \/ BlockQuoteBody
    \/ AppendAttribution

SpecAppend == InitAppend /\ [][NextAppend]_vars

\* ------------------------------------------- the line framer alone
\* The bytes of the raw input: backspace, tab, line feed, vertical tab, form
\* feed, carriage return, space and the letter a.
FrameBytes == {8, 9, 10, 11, 12, 13, 32, 97}

RawInputs == UNION {[1..n -> FrameBytes] : n \in 0..MaxRaw}

\* A nil token, and a token holding bytes (which may be none).
NilToken == [nil |-> TRUE, bytes |-> <<>>]
SomeToken(bytes) == [nil |-> FALSE, bytes |-> bytes]

\* bytes.IndexByte(data, b), counting from 1; 0 when b is not in data.
IndexByte(data, b) ==
    IF \E i \in 1..Len(data) : data[i] = b
    THEN CHOOSE i \in 1..Len(data) :
             data[i] = b /\ \A j \in 1..(i - 1) : data[j] # b
    ELSE 0

\* dropCR of bufio: drops one terminal carriage return.
dropCR(data) ==
    IF Len(data) > 0 /\ data[Len(data)] = 13
    THEN SubSeq(data, 1, Len(data) - 1)
    ELSE data

\* bufio.ScanLines(data, atEOF)
bufio_ScanLines(data, atEOF) ==
    IF atEOF /\ Len(data) = 0
    THEN [advance |-> 0, token |-> NilToken]
    ELSE IF IndexByte(data, 10) > 0
    THEN [advance |-> IndexByte(data, 10),
          token |-> SomeToken(dropCR(SubSeq(data, 1, IndexByte(data, 10) - 1)))]
    ELSE IF atEOF
    THEN [advance |-> Len(data), token |-> SomeToken(dropCR(data))]
    ELSE [advance |-> 0, token |-> NilToken]

\* The split function of the bufio.Scanner: splitRSTLines as a whole, the
\* token of bufio.ScanLines trimmed when it is not nil.
Split(data, atEOF) ==
    LET r == bufio_ScanLines(data, atEOF)
    IN  IF r.token.nil THEN r
        ELSE [r EXCEPT !.token = SomeToken(splitRSTLines(r.token.bytes))]

\* The Read of the bufio.Scanner on a strings.Reader: all the bytes, then EOF.
fill(f) ==
    IF f.unread = <<>> THEN [f EXCEPT !.atEOF = TRUE]
    ELSE [f EXCEPT !.buf = @ \o f.unread, !.unread = <<>>]

\* One call of Scan of a bufio.Scanner whose split function is
\* splitRSTLines: the split function is called on the buffered bytes, a
\* token is kept as the next line, and without a token more is read until
\* the reader is at its end.
RECURSIVE scanLoop(_)
scanLoop(f) ==
    IF f.buf # <<>> \/ f.atEOF
    THEN LET r == Split(f.buf, f.atEOF)
         IN  IF ~r.token.nil
             THEN [f EXCEPT !.buf = SubSeq(@, r.advance + 1, Len(@)),
                            !.got = Append(@, r.token.bytes)]
             ELSE IF f.atEOF
             THEN [f EXCEPT !.buf = <<>>, !.done = TRUE]
             ELSE scanLoop(fill(f))
    ELSE scanLoop(fill(f))

\* bufio.NewScanner(strings.NewReader(raw)) with Split(splitRSTLines)
InitFramer ==
    /\ Fresh(NewScanner)
    /\ Unobserved
    /\ frames = <<>>
    /\ fragment = NoFragment
    /\ input = <<>>
    /\ detected = NotCalled
    /\ calls = <<>>
    /\ tally = NoTally
    /\ \E raw \in RawInputs :
           framer = [run |-> TRUE, raw |-> raw, unread |-> raw, buf |-> <<>>,
                     atEOF |-> FALSE, got |-> <<>>, done |-> FALSE]

\* for scanner.Scan() { got = append(got, scanner.Text()) }
FramerScan ==
    /\ framer.run /\ ~framer.done
    /\ \E f \in {scanLoop(framer)} : framer' = f
    /\ UNCHANGED <<scannerVars, obsVars, frames, fragment, input, detected, calls, tally>>

NextFramer == FramerScan

SpecFramer == InitFramer /\ [][NextFramer]_vars

\* ------------------------------------------- the tokens of a client counted
\* Raw lines of the client whose tokens are counted: blank, "a" at every
\* indentation and the literal marker "::".
BalanceLines == {<<>>, <<58, 58>>} \cup {Ln(i, <<97>>) : i \in 0..MaxIndent}

\* The count after a call of method o in which next produced the token e
\* (Nil when the call answered from the peek buffer): `up` counts the INDENT
\* and LATE_INDENT tokens and the PushIndent and LazyIndent calls, `down`
\* the DEDENT tokens, `again` the LazyIndent calls made while a lazy indent
\* was pending already, `late` the PushIndent and LazyIndent calls made while
\* a late indent was pending, `last` is the type of the token next produced
\* last, `eof` tells whether this token is the first EOF.
Counted(o, e) ==
    [up |-> tally.up + (IF e.Type \in {"INDENT", "LATE_INDENT"} THEN 1 ELSE 0)
                     + (IF o \in {"PushIndent", "LazyIndent"} THEN 1 ELSE 0),
     down |-> tally.down + (IF e.Type = "DEDENT" THEN 1 ELSE 0),
     calls |-> tally.calls + (IF o \in {"PushIndent", "LazyIndent"} THEN 1 ELSE 0),
     again |-> tally.again + (IF o = "LazyIndent" /\ lazyIndent THEN 1 ELSE 0),
     late |-> tally.late + (IF o \in {"PushIndent", "LazyIndent"} /\ lateIndent
                            THEN 1 ELSE 0),
     last |-> IF e = Nil THEN tally.last ELSE e.Type,
     eof |-> IF tally.eof # "no" THEN "past"
             ELSE IF e.Type = "EOF" THEN "first" ELSE "no"]

InitBalance == InitScanner

CountRead ==
    /\ panic = ""
    /\ \E in \in ScanAnswers(S, BalanceLines) :
         \E r \in {Read(S, in)} :
             /\ Set(r.s) /\ Observe("Read", r.tok, r.emit, in)
             /\ tally' = Counted("Read", r.emit)
    /\ UNCHANGED <<frames, fragment, input, detected, calls, framer>>

CountPeek ==
    /\ panic = ""
    /\ \E in \in ScanAnswers(S, BalanceLines) :
         \E r \in {Peek(S, in)} :
             /\ Set(r.s) /\ Observe("Peek", r.tok, r.emit, in)
             /\ tally' = Counted("Peek", r.emit)
    /\ UNCHANGED <<frames, fragment, input, detected, calls, framer>>

CountPushIndent ==
    /\ panic = ""
    /\ tally.calls < MaxFeedback
    /\ \E n \in 1..MaxPush :
         Set(PushIndent(S, n)) /\ Obs("PushIndent", Nil, Nil)
    /\ tally' = Counted("PushIndent", Nil)
    /\ UNCHANGED <<frames, fragment, input, detected, calls, framer>>

CountLazyIndent ==
    /\ panic = ""
    /\ tally.calls < MaxFeedback
    /\ Set(LazyIndent(S)) /\ Obs("LazyIndent", Nil, Nil)
    /\ tally' = Counted("LazyIndent", Nil)
    /\ UNCHANGED <<frames, fragment, input, detected, calls, framer>>

NextBalance == CountRead \/ CountPeek \/ CountPushIndent \/ CountLazyIndent

SpecBalance == InitBalance /\ [][NextBalance]_vars

\* ================================================================ properties
\* The last element of a non-empty stack.
Last(stack) == stack[Len(stack)]

\* The stack without its last element.
Front(stack) == SubSeq(stack, 1, Len(stack) - 1)

\* C1: ParseFragment never panics: whatever the input, the run ends with a
\* returned Fragment and problems appear only as Error nodes inside it.
C1_NeverPanics == panic = ""

\* C2 as stated: the base level is never popped and no DEDENT is emitted
\* while the stack holds only the base level 0.
C2_NoDedentAtBase ==
    /\ Len(indents) >= 1 /\ indents[1] = 0
    /\ emit.Type = "DEDENT" => Len(was.s.indents) > 1

\* C2, amended: the base level is never popped, and a DEDENT emitted while
\* the stack holds only the base level is the synthetic DEDENT of a pending
\* LazyIndent that did not apply, which pops nothing.
C2_BaseNeverPopped ==
    /\ Len(indents) >= 1 /\ indents[1] = 0
    /\ panic # "index out of range"
    /\ (emit.Type = "DEDENT" /\ Len(was.s.indents) = 1)
          => (was.s.lazyIndent /\ ~lazyIndent /\ indents = was.s.indents)

\* A DEDENT has been emitted while only the base level was open.
C2_DedentAtBase == emit.Type = "DEDENT" /\ was.s.indents = <<0>>

\* C3: a Peek that directly follows a Peek returns the identical token and
\* leaves the indent stack, the flags and every other field as the first
\* Peek left them; the Read that follows a Peek returns that same token.
C3_PeekIdempotent ==
    /\ (op = "Peek" /\ was.op = "Peek") => (ret = was.ret /\ S = was.s)
    /\ (op = "Read" /\ was.op = "Peek") => ret = was.ret

\* A Peek has followed the Peek that produced an INDENT and pushed its level.
C3_PeekedTwice ==
    /\ op = "Peek" /\ was.op = "Peek" /\ emit = Nil
    /\ ret.Type = "INDENT" /\ Len(indents) = 2

\* A call that hands a token to the client.
Fetches == op \in {"Read", "Peek"}

C5_EndClosesLevels ==
    /\ (emit # Nil /\ nextToken.Type = "EOF")
          => /\ emit.Type = "DEDENT"
             /\ \/ indents = Front(was.s.indents)
                \/ was.s.lazyIndent /\ indents = was.s.indents
    /\ emit.Type = "EOF" => indents = <<0>>
    /\ (terminal.Type = "EOF" /\ "PushIndent" \notin terminal.feedback)
          => indents = <<0>>

\* Read returns the first EOF of a non-empty input right after Read returned
\* the DEDENT that closed the last open level.
C5_EOFAfterDedents ==
    /\ op = "Read" /\ emit.Type = "EOF" /\ terminal.feedback = {}
    /\ was.emit.Type = "DEDENT" /\ was.op = "Read" /\ line > 1

\* C6: throughout a ParseFragment run the indent stack is non-empty, starts
\* with the base level 0 and increases strictly from base to top.
C6_StackStrictlyIncreasing ==
    /\ Len(indents) >= 1
    /\ indents[1] = 0
    /\ \A i \in 1..(Len(indents) - 1) : indents[i] < indents[i + 1]

\* The parser has pushed a list item's level on top of a block quote's.
C6_PushedOnIndent == op = "PushBackSuffix" /\ Len(indents) = 3 /\ Len(frames) >= 3

\* The paragraph of the one-line text "a".
ParagraphA == Paragraph(<<<<97>>>>)

\* C7: an input of two plain lines, the first indented deeper than the
\* second and the second still indented, parses into one outer BlockQuote
\* holding an inner BlockQuote with the first line's Paragraph, followed by
\* the second line's Paragraph, and no Error node.
C7_LateIndentNests ==
    \A i, j \in 1..MaxIndent :
        (fragment.returned /\ j < i /\ input = <<Ln(i, <<97>>), Ln(j, <<97>>)>>)
            => fragment = Fragment(<<BlockQuote(<<BlockQuote(<<ParagraphA>>, <<>>),
                                                 ParagraphA>>, <<>>)>>, <<>>)

MetLine == IF nextToken # Nil THEN nextToken ELSE emit

\* C9: when next runs with a lazy indent pending and meets a plain line
\* indented deeper than the stack top, whatever that top is, the token it
\* produces is that LINE itself and the stack top becomes the line's
\* indentation.
C9_LazyIndentTakesLine ==
    (/\ was.s.lazyIndent /\ emit # Nil
     /\ MetLine.Type = "LINE"
     /\ MetLine.Column - 1 > Last(was.s.indents))
        => (emit = MetLine /\ Last(indents) = MetLine.Column - 1)

\* C10: when next runs with a lazy indent pending and the token it meets is
\* not a LINE indented deeper than the stack top, it produces one synthetic
\* DEDENT at that token's position, leaves the indent stack and lateIndent
\* unchanged, clears the lazy flag and keeps the token pending; the token
\* is then produced by the ordinary switch of next, at once when it sits at
\* the level of the stack top.
C10_LazyMissDedents ==
    /\ (/\ was.s.lazyIndent /\ emit # Nil
        /\ (MetLine.Type # "LINE" \/ MetLine.Column - 1 <= Last(was.s.indents)))
          => /\ nextToken # Nil
             /\ emit = Token("DEDENT", <<>>, nextToken.Line, nextToken.Column)
             /\ indents = was.s.indents
             /\ lateIndent = was.s.lateIndent
             /\ ~lazyIndent
    /\ (/\ emit # Nil /\ was.emit.Type = "DEDENT" /\ ~was.s.lazyIndent
        /\ was.s.nextIndent = Last(was.s.indents))
          => (emit = was.s.nextToken /\ indents = was.s.indents)

\* A pending lazy indent met a LINE that is not deeper than the stack top,
\* under an open level.
C10_LazyMissed ==
    /\ was.s.lazyIndent /\ emit.Type = "DEDENT" /\ nextToken.Type = "LINE"
    /\ Len(indents) = 2 /\ indents = was.s.indents

\* C11: PushIndent(n) with n >= 1 pushes the level top + n; a LINE met at
\* exactly the level of the stack top is produced at once, with no INDENT
\* and the stack untouched; a token met below the stack top makes next
\* produce one DEDENT that pops exactly that level.
C11_PushedLevelCloses ==
    /\ (op = "PushIndent" /\ panic = "")
          => (Front(indents) = was.s.indents /\ Last(indents) > Last(was.s.indents))
    /\ (/\ emit # Nil /\ ~was.s.lazyIndent
        /\ MetLine.Type = "LINE" /\ MetLine.Column - 1 = Last(was.s.indents))
          => (emit = MetLine /\ indents = was.s.indents)
    /\ (/\ emit # Nil /\ ~was.s.lazyIndent
        /\ nextToken # Nil /\ nextIndent < Last(was.s.indents))
          => (emit.Type = "DEDENT" /\ indents = Front(was.s.indents))

\* The LINE read right after a PushIndent sits at the pushed level.
C11_LineAtPushedLevel ==
    /\ was.op = "PushIndent" /\ op = "Read" /\ ret.Type = "LINE"
    /\ Len(indents) = 2 /\ ret.Column - 1 = indents[2]

\* C12: PushIndent and LazyIndent called while a peeked token is buffered
\* panic with the message of their assertion and leave the indent stack,
\* the lazy flag and the buffered token as they were; without a buffered
\* token they do not panic.
C12_FeedbackNeedsNoPeek ==
    /\ (op \in {"PushIndent", "LazyIndent"} /\ was.s.peek # Nil)
          => /\ panic = "cannot call " \o op \o " with an active peek"
             /\ indents = was.s.indents
             /\ lazyIndent = was.s.lazyIndent
             /\ peek = was.s.peek
    /\ (op \in {"PushIndent", "LazyIndent"} /\ was.s.peek = Nil) => panic = ""

\* LazyIndent was called over a peeked LINE, under an open level.
C12_LazyIndentOverPeek ==
    /\ op = "LazyIndent" /\ was.op = "Peek" /\ peek.Type = "LINE"
    /\ panic # "" /\ Len(indents) = 2

\* C13: in a ParseFragment run the assertion of PushIndent never fails:
\* every PushIndent of the parser follows the Read of the marker line, so
\* the step that pushes back the line's remainder has pushed exactly one
\* level and has not panicked.
C13_ParserPushesAfterRead ==
    /\ panic # "cannot call PushIndent with an active peek"
    /\ panic # "cannot call LazyIndent with an active peek"
    /\ op = "PushBackSuffix"
          => (was.s.peek.Type = "LINE" /\ Front(indents) = was.s.indents /\ panic = "")

\* The parser has pushed the width of an attribution marker.
C13_AttributionPushed ==
    /\ op = "PushBackSuffix" /\ Len(frames) > 0 /\ top.pc = "attribution"
    /\ Last(indents) = Last(was.s.indents) + 3

\* The last call fetched a line; its measured leading whitespace.
Fetched == scanned.ok
FetchedLine == leadingIndent(scanned.text, 0)

\* C14: in literal mode the first line that is blank or not deeper than the
\* stack top ends literal mode: a line is tokenized as LITERAL only directly
\* after a "::" marker line or another LITERAL line, and a plain line deeper
\* than the stack top that follows an ordinary line is INDENT then LINE.
C14_LiteralModeEnds ==
    /\ (Fetched /\ scanned.kind = "LITERAL") => scanned.after \in {"marker", "LITERAL"}
    /\ (/\ Fetched /\ scanned.after = "plain" /\ ~was.s.lazyIndent
        /\ Len(FetchedLine.data) > 0 /\ ~endsWithMarker(FetchedLine.data)
        /\ FetchedLine.indent > Last(was.s.indents))
          => (emit.Type = "INDENT" /\ nextToken.Type = "LINE")

\* C15 as stated, whatever the pending feedback: in literal mode a non-blank
\* line deeper than the stack top is returned as a LITERAL token carrying the
\* whole line, nothing synthetic before it, the stack unchanged.
C15_LiteralAlways ==
    (/\ Fetched /\ was.s.literal
     /\ Len(FetchedLine.data) > 0 /\ FetchedLine.indent > Last(was.s.indents))
       => /\ emit.Type = "LITERAL" /\ emit.Data = scanned.text /\ emit.Column = 1
          /\ nextToken = Nil
          /\ indents = was.s.indents

\* C15: in literal mode, with no lazy indent pending, a non-blank line deeper
\* than the stack top is returned as a LITERAL token carrying the whole line
\* with its leading whitespace, at column 1, with nothing synthetic before it
\* and the indent stack unchanged.
C15_LiteralVerbatim ==
    (/\ Fetched /\ was.s.literal /\ ~was.s.lazyIndent
     /\ Len(FetchedLine.data) > 0 /\ FetchedLine.indent > Last(was.s.indents))
       => /\ emit.Type = "LITERAL" /\ emit.Data = scanned.text /\ emit.Column = 1
          /\ nextToken = Nil
          /\ indents = was.s.indents

C15_LiteralKeepsWhitespace ==
    /\ Fetched /\ op = "Read" /\ ret.Type = "LITERAL"
    /\ ret.Data = <<32, 32, 97>> /\ indents = <<0, 1>>

\* C16: a line of nothing but whitespace yields a BLANK token and never
\* changes the indent level: the call that fetches it leaves the stack as it
\* was and returns no INDENT and no LATE_INDENT (a DEDENT only for a missed
\* lazy indent, which pops nothing), and the stack is the same before and
\* after the call that returns a BLANK token.
C16_BlankKeepsIndent ==
    /\ (Fetched /\ Len(TrimSpace(scanned.text)) = 0)
          => /\ MetLine.Type = "BLANK"
             /\ indents = was.s.indents
             /\ emit.Type \in {"BLANK", "DEDENT"}
             /\ emit.Type = "DEDENT" => was.s.lazyIndent
    /\ emit.Type = "BLANK" => indents = was.s.indents

C16_BlankInsideIndent ==
    /\ Fetched /\ Len(TrimSpace(scanned.text)) = 0
    /\ op = "Read" /\ ret.Type = "BLANK" /\ Len(indents) = 3

C18_MarkerShape ==
    detected.called =>
        LET d == peek.Data
            Shape(o, k) ==
                /\ Len(d) >= o + k + 1
                /\ o = 1 => d[1] = 40
                /\ \A i \in (o + 1)..(o + k) : IsDigit(d[i])
                /\ d[o + k + 1] \in (IF o = 1 THEN {41} ELSE {46, 41})
                /\ Len(d) = o + k + 1 \/ d[o + k + 2] = 32
        IN  IF peek.Type = "LINE" /\ \E o \in {0, 1}, k \in 1..MaxData : Shape(o, k)
            THEN /\ detected.seq = enumSeqArabic
                 /\ \E o \in {0, 1}, k \in 1..MaxData :
                       /\ Shape(o, k)
                       /\ detected.ordinal = AtoiValue(SubSeq(d, o + 1, o + k))
            ELSE detected.seq = 0

\* The list frame whose item was just started, and the body-holding frame
\* that has just got a list back while a token is still peeked.
ItemStarted ==
    /\ op = "PushBackSuffix" /\ Len(frames) >= 2
    /\ frames[Len(frames) - 1].pc = "item"
    /\ top.fn = "parseBody" /\ top.pc = "loop" /\ top.body = <<>>
ListReturned ==
    /\ panic = "" /\ Len(frames) >= 1 /\ peek # Nil
    /\ top.fn \in {"parseStructureModel", "parseBody"} /\ top.pc = "loop"
    /\ Len(top.body) > 0 /\ Last(top.body).kind = "EnumeratedList"

\* C19: an enumerated list takes a line as its next item only if the line is
\* a marker of the list's parenthesization and closing punctuation whose
\* ordinal is one more than the previous item's.  Otherwise the list ends:
\* the line stays peeked, no Error is appended, and a line that is itself a
\* marker is dispatched as the start of a new EnumeratedList.
C19_EnumerationRun ==
    /\ (ItemStarted /\ frames[Len(frames) - 1].fn = "parseEnumeratedList") =>
          \E d \in {detectEnumeratedListItem(was.s.peek)} :
            \E l \in {frames[Len(frames) - 1]} :
               /\ d.seq = l.seq /\ d.marker = l.marker
               /\ d.ordinal = l.start + Len(l.items)
    /\ ListReturned =>
          \E d \in {detectEnumeratedListItem(peek)} :
            \E l \in {Last(top.body)} :
               /\ Len(l.Items) >= 1
               /\ ~(/\ d.seq # 0
                    /\ l.EnumPrefix = (IF d.marker = enumMarkerParens THEN "(" ELSE "")
                    /\ l.EnumSuffix = (IF d.marker = enumMarkerPeriod THEN "." ELSE ")")
                    /\ d.ordinal = l.FirstIndex + Len(l.Items))
               /\ d.seq # 0 => dispatch(top, peek) = "enumerated"

C19_SiblingList ==
    /\ ListReturned /\ Len(top.body) = 2
    /\ top.body[1].kind = "EnumeratedList" /\ top.body[1].EnumSuffix = "."
    /\ top.body[2].EnumSuffix = ")" /\ top.body[2].EnumPrefix = ""
    /\ top.body[2].FirstIndex = 2
    /\ detectEnumeratedListItem(peek).marker = enumMarkerParens

\* C20: every EnumeratedList records the enumeration type arabic and one of
\* the affix pairs ("", "."), ("(", ")"), ("", ")"); a list opened by the
\* first line of the input has the ordinal of that line as FirstIndex,
\* whatever the number, and the affixes of the line's style: "N." gives
\* ("", "."), "(N)" gives ("(", ")"), "N)" gives ("", ")").
C20_ListRecordsStyle ==
    /\ ListReturned =>
          /\ Last(top.body).EnumType = "arabic"
          /\ <<Last(top.body).EnumPrefix, Last(top.body).EnumSuffix>>
                \in {<<"", ".">>, <<"(", ")">>, <<"", ")">>}
    /\ (/\ ListReturned /\ Len(frames) = 1 /\ Len(top.body) = 1
        /\ detectEnumeratedListItem(Token("LINE", input[1], 1, 1)).seq # 0)
          => \E t \in {input[1]} :
               \E l \in {top.body[1]} :
                  /\ l.EnumType = "arabic"
                  /\ l.FirstIndex = (IF t[1] = 40 THEN t[2] ELSE t[1]) - 48
                  /\ l.EnumPrefix = (IF t[1] = 40 THEN "(" ELSE "")
                  /\ l.EnumSuffix = (IF t[1] # 40 /\ t[2] = 46 THEN "." ELSE ")")

C20_ParenthesizedFromThree ==
    /\ ListReturned /\ Len(frames) = 1 /\ input[1] = <<40, 51, 41, 32, 97>>
    /\ top.body = <<EnumeratedList(<<ListItem(<<Paragraph(<<<<97>>>>)>>)>>,
                                        "arabic", "(", ")", 3)>>

\* C21: consecutive bullet lines with the same bullet character, blank lines
\* between them allowed, make one BulletList with one ListItem per bullet
\* line in source order; a bullet line with another character ends the list
\* and opens a sibling BulletList.  Stated on inputs made of blank lines and
\* bullet lines at the margin: the returned Body is the folding of the
\* bullet lines into runs of one character.
C21_BulletsFold ==
    LET IsBulletLine(l) ==
            /\ Len(l) >= 1 /\ l[1] \in {42, 43}
            /\ Len(l) = 1 \/ l[2] = 32
        Item(l) == ListItem(IF Len(l) <= 2 THEN <<>>
                            ELSE <<Paragraph(<<SubSeq(l, 3, Len(l))>>)>>)
        RECURSIVE Fold(_, _, _)
        Fold(ls, lists, last) ==
            IF ls = <<>> THEN lists
            ELSE IF Head(ls) = <<>> THEN Fold(Tail(ls), lists, last)
            ELSE IF Head(ls)[1] = last
            THEN Fold(Tail(ls),
                      [lists EXCEPT ![Len(lists)] =
                           BulletList(Append(@.Items, Item(Head(ls))))],
                      last)
            ELSE Fold(Tail(ls), Append(lists, BulletList(<<Item(Head(ls))>>)),
                      Head(ls)[1])
    IN  (/\ fragment.returned
         /\ \A i \in 1..Len(input) : input[i] = <<>> \/ IsBulletLine(input[i]))
           => /\ fragment.Body = Fold(input, <<>>, 0)
              /\ fragment.ChildElements = <<>>

C21_TwoItemsThenSibling ==
    /\ fragment.returned
    /\ input = <<<<42, 32, 97>>, <<42>>, <<43, 32, 97>>>>
    /\ Len(fragment.Body) = 2
    /\ Len(fragment.Body[1].Items) = 2 /\ Len(fragment.Body[2].Items) = 1

\* C22: the text after the marker of a bullet or enumerated line is re-read
\* as the first line of the item's body, the lines indented to the marker
\* width continue that body, the item ends at the first line indented less
\* (or at the end of input), and a bare marker gives an empty body.  Stated
\* on inputs made of a marker line at the margin, then lines "a" indented to
\* the marker width, then lines "a" at the margin: the list has one item
\* holding the marker text and the continuation lines as one Paragraph, and
\* the margin lines are a Paragraph after the list.
C22_ItemBody ==
    LET first == input[1]
        Width == IF \E i \in 1..Len(first) : first[i] = 32
                 THEN CHOOSE i \in 1..Len(first) :
                          first[i] = 32 /\ \A j \in 1..(i - 1) : first[j] # 32
                 ELSE Len(first)
        IsMarker ==
            /\ first[1] # 32
            /\ \/ detectBulletListItem(Token("LINE", first, 1, 1)).marker # 0
               \/ detectEnumeratedListItem(Token("LINE", first, 1, 1)).seq # 0
        Shaped(k) ==
            /\ \A i \in 2..k : input[i] = Ln(Width, <<97>>)
            /\ \A i \in (k + 1)..Len(input) : input[i] = <<97>>
        Lines(n) == [i \in 1..n |-> <<97>>]
        Text(k) == (IF Len(first) > Width THEN <<SubSeq(first, Width + 1, Len(first))>>
                    ELSE <<>>) \o Lines(k - 1)
        Body(k) == IF Text(k) = <<>> THEN <<>> ELSE <<Paragraph(Text(k))>>
    IN  (fragment.returned /\ Len(input) >= 1 /\ Len(input[1]) >= 1 /\ IsMarker) =>
            \A k \in 1..Len(input) :
                Shaped(k) =>
                    /\ Len(fragment.Body) = (IF k < Len(input) THEN 2 ELSE 1)
                    /\ fragment.Body[1].kind \in {"BulletList", "EnumeratedList"}
                    /\ fragment.Body[1].Items = <<ListItem(Body(k))>>
                    /\ k < Len(input)
                          => fragment.Body[2] = Paragraph(Lines(Len(input) - k))

C22_ContinuedItem ==
    /\ fragment.returned
    /\ input = <<<<49, 46, 32, 97>>, <<32, 32, 32, 97>>, <<97>>>>
    /\ fragment.Body[1].Items = <<ListItem(<<Paragraph(<<<<97>>, <<97>>>>)>>)>>
    /\ fragment.Body[2] = Paragraph(<<<<97>>>>)

\* C23: in a block-quote scope an attribution goes to the current BlockQuote
\* and closes it.  In every activation of parseBlockQuotes the quotes built
\* so far all carry an attribution except the current one, which is the
\* last; a step never changes a quote that carries an attribution and never
\* removes or reorders quotes, so what follows an attribution goes into a
\* new BlockQuote after it.
C23_AttributionCloses ==
    [][/\ \A j \in 1..Len(frames') :
            frames'[j].fn = "parseBlockQuotes" =>
                /\ frames'[j].current \in {0, Len(frames'[j].quotes)}
                /\ \A i \in 1..Len(frames'[j].quotes) :
                      (frames'[j].quotes[i].Attribution = <<>>) <=> (i = frames'[j].current)
       /\ \A j \in 1..Len(frames) :
            (j <= Len(frames') /\ frames[j].fn = "parseBlockQuotes") =>
                /\ Len(frames'[j].quotes) >= Len(frames[j].quotes)
                /\ \A i \in 1..Len(frames[j].quotes) :
                      frames[j].quotes[i].Attribution # <<>>
                         => frames'[j].quotes[i] = frames[j].quotes[i]
      ]_vars

C23_QuoteAfterAttribution ==
    /\ fragment.returned
    /\ input = <<<<32, 42, 32, 97>>, <<32, 45, 45, 32, 97>>, <<32, 97>>>>
    /\ fragment.Body =
         <<BlockQuote(<<BulletList(<<ListItem(<<Paragraph(<<<<97>>>>)>>)>>)>>, <<<<97>>>>),
           BlockQuote(<<Paragraph(<<<<97>>>>)>>, <<>>)>>

\* C24: a line "--" followed by whitespace is an attribution only in a
\* block-quote scope.  Only an activation of parseBlockQuotes is ever
\* reading an attribution; in any other scope such a line is dispatched as a
\* paragraph line; an input of margin lines "a" and "-- a" is one Paragraph
\* of those lines as they are; and after a bare bullet, lines " a" and
\* " -- a" are the one Paragraph of the item.
C24_AttributionOnlyInQuotes ==
    /\ \A j \in 1..Len(frames) :
          frames[j].pc \in {"attribution", "dedent"} => frames[j].fn = "parseBlockQuotes"
    /\ (Running({"dispatch"}) /\ detectAttribution(peek) # 0 /\ top.fn # "parseBlockQuotes")
          => dispatch(top, peek) = "paragraph"
    /\ (/\ fragment.returned /\ Len(input) >= 1
        /\ \A i \in 1..Len(input) : input[i] \in {<<97>>, <<45, 45, 32, 97>>})
          => fragment.Body = <<Paragraph(input)>>
    /\ (/\ fragment.returned /\ Len(input) >= 2 /\ input[1] = <<42>>
        /\ \A i \in 2..Len(input) : input[i] \in {<<32, 97>>, <<32, 45, 45, 32, 97>>})
          => fragment.Body =
               <<BulletList(<<ListItem(<<Paragraph([i \in 1..(Len(input) - 1) |->
                                                       Tail(input[i + 1])])>>)>>)>>

C24_DashesInItem ==
    /\ fragment.returned
    /\ input = <<<<42>>, <<32, 45, 45, 32, 97>>>>
    /\ fragment.Body = <<BulletList(<<ListItem(<<Paragraph(<<<<45, 45, 32, 97>>>>)>>)>>)>>

\* C25: in a structure-model scope the first structural element switches the
\* scope to structure mode for good: from then on a body element adds an
\* Error to the structure sequence, a mixed element and a structural element
\* are appended to the structure sequence, the body never changes again, and
\* a call on one scope leaves every other scope as it was.
C25_StructureModeOneWay ==
    [][calls' # calls =>
         \E c \in {calls'[Len(calls')]} :
           \E f \in {frames[c.scope]}, g \in {frames'[c.scope]} :
              /\ \A k \in 1..Len(frames) : k # c.scope => frames'[k] = frames[k]
              /\ f.fn = "parseStructureModel" =>
                    /\ (c.fn = "appendStructure" \/ f.mode = "structure") =>
                          /\ g.mode = "structure"
                          /\ g.body = f.body
                          /\ Len(g.structure) = Len(f.structure) + 1
                          /\ SubSeq(g.structure, 1, Len(f.structure)) = f.structure
                    /\ c.fn \in {"appendStructure", "appendMixed"} /\ g.mode = "structure"
                          => Last(g.structure) = c.elem
                    /\ c.fn = "appendBody" /\ f.mode = "structure"
                          => Last(g.structure) =
                               Error("body elements may not appear after sections", c.pos)
      ]_vars

C25_BodyAfterSection ==
    /\ Len(calls) = 3
    /\ calls[1].fn = "appendBody" /\ calls[2].fn = "appendStructure"
    /\ calls[3].fn = "appendBody"
    /\ \A i \in 1..3 : calls[i].scope = 1
    /\ Len(frames[1].body) = 1 /\ Len(frames[1].structure) = 2
    /\ frames[1].structure[2].kind = "Error"

\* C26: in a scope without structure (a list-item body, a block-quote body) a
\* structural element becomes exactly one Error appended to the scope's body
\* (the current quote, for block quotes) at the element's position; the
\* scope stays in body mode and a later body element is appended as usual.
C26_StructureBecomesError ==
    [][calls' # calls =>
         \E c \in {calls'[Len(calls')]} :
           \E f \in {frames[c.scope]}, g \in {frames'[c.scope]} :
              LET BodyOf(x) == IF x.fn = "parseBody" THEN x.body
                               ELSE IF x.current = 0 THEN <<>>
                               ELSE x.quotes[x.current].Quote
                  Closed(x) == IF x.current = 0 THEN x.quotes
                               ELSE SubSeq(x.quotes, 1, Len(x.quotes) - 1)
              IN  f.fn \in {"parseBody", "parseBlockQuotes"} =>
                    /\ g.mode = "body" /\ g.structure = <<>>
                    /\ c.fn = "appendStructure" =>
                          BodyOf(g) = Append(BodyOf(f),
                                Error("structure elements may not appear here", c.pos))
                    /\ c.fn = "appendBody" => BodyOf(g) = Append(BodyOf(f), c.elem)
                    /\ (f.fn = "parseBlockQuotes" /\ c.fn \in {"appendStructure", "appendBody"})
                          => Closed(g) = Closed(f) /\ g.current = Len(g.quotes)
      ]_vars

C26_BodyAfterError ==
    /\ Len(calls) = 3 /\ frames[2].fn = "parseBlockQuotes"
    /\ calls[1].fn = "appendBody"
    /\ calls[2].fn = "appendStructure" /\ calls[3].fn = "appendBody"
    /\ \A i \in 1..3 : calls[i].scope = 2
    /\ Len(frames[2].quotes) = 1
    /\ frames[2].quotes[1].Quote[2].kind = "Error"
    /\ frames[2].quotes[1].Quote[3].kind = "Paragraph"

\* C27: a maximal run of consecutive LINE tokens whose first line is not a
\* list or attribution marker becomes exactly one Paragraph holding one
\* CharData per line, in input order, with the text of the line as it is; a
\* blank line, a change of indentation or the end of input ends the run.
\* Stated on inputs made of lines at the margin and blank lines where each
\* line opening a run is no list marker, optionally followed by lines "a" at
\* one deeper indentation: the returned Body is one Paragraph per run, and
\* the indented lines are one Paragraph of their own inside a BlockQuote.
C27_ParagraphPerRun ==
    LET AtMargin(l) == l # <<>> /\ l[1] # 32
        OpensList(l) == l[1] \in {40, 42, 43} \cup (48..57)
        Deeper(l) == \E k \in 1..MaxIndent : l = Ln(k, <<97>>)
        Flat == IF \E i \in 1..Len(input) : Deeper(input[i])
                THEN (CHOOSE i \in 1..Len(input) :
                         Deeper(input[i]) /\ \A j \in 1..(i - 1) : ~Deeper(input[j])) - 1
                ELSE Len(input)
        RECURSIVE Runs(_, _, _)
        Runs(ls, done, run) ==
            IF ls = <<>>
            THEN IF run = <<>> THEN done ELSE Append(done, Paragraph(run))
            ELSE IF Head(ls) = <<>>
            THEN Runs(Tail(ls),
                      IF run = <<>> THEN done ELSE Append(done, Paragraph(run)),
                      <<>>)
            ELSE Runs(Tail(ls), done, Append(run, Head(ls)))
        Quoted == IF Flat = Len(input) THEN <<>>
                  ELSE <<BlockQuote(
                           <<Paragraph([i \in 1..(Len(input) - Flat) |-> <<97>>])>>,
                           <<>>)>>
    IN  (/\ fragment.returned
         /\ Flat >= 1 /\ input[Flat] # <<>>
         /\ \A i \in 1..Flat :
               /\ input[i] = <<>> \/ AtMargin(input[i])
               /\ (input[i] # <<>> /\ (i = 1 \/ input[i - 1] = <<>>))
                     => ~OpensList(input[i])
         /\ \A i \in (Flat + 1)..Len(input) : input[i] = input[Flat + 1])
           => fragment.Body = Runs(SubSeq(input, 1, Flat), <<>>, <<>>) \o Quoted

C27_RunThenQuote ==
    /\ fragment.returned
    /\ input = <<<<97>>, <<42, 32, 97>>, <<32, 97>>>>
    /\ fragment.Body = <<Paragraph(<<<<97>>, <<42, 32, 97>>>>),
                         BlockQuote(<<ParagraphA>>, <<>>)>>

\* C28: empty input gives a Fragment whose body and structure sequence are
\* both empty, and every token the scanner hands out for it is EOF at line 1,
\* column 1.
C28_EmptyInput ==
    /\ (input = <<>> /\ op # "NewScanner") => ret = Token("EOF", <<>>, 1, 1)
    /\ (input = <<>> /\ fragment.returned)
          => /\ fragment.Body = <<>>
             /\ fragment.ChildElements = <<>>

C28_EmptyFragment ==
    /\ input = <<>>
    /\ fragment.returned
    /\ op = "Read" /\ ret.Type = "EOF"

\* The lines TestSplitRSTLines expects of the raw input when the positions
\* in `ends` are where its lines end: one line per ending and one more for
\* bytes after the last ending; each line is the bytes up to its ending,
\* less one final carriage return, less the longest tail of space, tab, form
\* feed, vertical tab and backspace, and nothing else is changed.
FramedBy(ends) ==
    LET raw == framer.raw
        got == framer.got
        Count == Cardinality(ends)
                    + (IF Len(raw) > 0 /\ Len(raw) \notin ends THEN 1 ELSE 0)
        Ending(k) == IF k = 0 THEN 0
                     ELSE IF k > Cardinality(ends) THEN Len(raw) + 1
                     ELSE CHOOSE i \in ends :
                              Cardinality({j \in ends : j < i}) = k - 1
        Piece(k) == SubSeq(raw, Ending(k - 1) + 1, Ending(k) - 1)
        Content(k) == IF Piece(k) # <<>> /\ Piece(k)[Len(Piece(k))] = 13
                      THEN SubSeq(Piece(k), 1, Len(Piece(k)) - 1)
                      ELSE Piece(k)
        Blank == {8, 9, 11, 12, 32}
    IN  /\ Len(got) = Count
        /\ \A k \in 1..Count :
              /\ Len(got[k]) <= Len(Content(k))
              /\ got[k] = SubSeq(Content(k), 1, Len(got[k]))
              /\ \A i \in (Len(got[k]) + 1)..Len(Content(k)) : Content(k)[i] \in Blank
              /\ got[k] = <<>> \/ got[k][Len(got[k])] \notin Blank

\* C29: the line framer yields no line for empty input and otherwise one
\* string per input line, a final newline adding no empty line and every
\* line ending removed, each string being its line without its trailing
\* space, tab, form feed, vertical tab and backspace bytes and with its
\* leading whitespace as it was.  Here as the claim has it, the line endings
\* being those of every system: a line feed, a carriage return followed by a
\* line feed, and a carriage return alone.
C29_EveryLineEnding ==
    framer.done =>
        FramedBy({i \in 1..Len(framer.raw) :
                     \/ framer.raw[i] = 10
                     \/ /\ framer.raw[i] = 13
                        /\ i = Len(framer.raw) \/ framer.raw[i + 1] # 10})

\* C29 as amended: the lines end at line feeds only; a carriage return before
\* the line feed, or as the last byte of an unended last line, is removed
\* with it, and any other carriage return stays in its line.
C29_LineFeedEndings ==
    framer.done =>
        FramedBy({i \in 1..Len(framer.raw) : framer.raw[i] = 10})

C29_TrailingSpaceBeforeCRLF ==
    /\ framer.done
    /\ framer.raw = <<97, 32, 13, 10>>
    /\ framer.got = <<<<97>>>>

\* What the switch of next does in the call just made: the token next
\* produced is the real token only if the stack top the call found is the
\* indentation of the pending line, and then the stack is as it was; if
\* they differ the token is an INDENT or LATE_INDENT and the line's
\* indentation was pushed, or a DEDENT and one level was popped; a LINE has
\* the column after its indentation.
NextAdjusted ==
    LET before == was.s.indents
        Synthetic == emit.Type \in {"INDENT", "LATE_INDENT", "DEDENT"}
    IN  /\ ~Synthetic => nextIndent = Last(before) /\ indents = before
        /\ nextIndent # Last(before) =>
              \/ /\ emit.Type \in {"INDENT", "LATE_INDENT"}
                 /\ indents = Append(before, nextIndent)
              \/ /\ emit.Type = "DEDENT"
                 /\ indents = Front(before)
        /\ emit.Type = "LINE" => emit.Column = nextIndent + 1

\* C30: the scanner hands out the real token of a line only when the top of
\* the indent stack equals the line's indentation; while they differ each
\* call returns one synthetic token, an INDENT or LATE_INDENT that pushes
\* the line's indentation or a DEDENT that pops exactly one level; and the
\* column of a LINE token is one past its indentation.  Here as the claim
\* has it, for every call in which next produced a token.
C30_OneLevelPerCall ==
    (op \in {"Read", "Peek"} /\ emit # Nil /\ panic = "") => NextAdjusted

\* C30 as amended: the same for the calls made while no lazy indent is
\* pending.
C30_OneLevelUnlessLazy ==
    (op \in {"Read", "Peek"} /\ emit # Nil /\ panic = "" /\ ~was.s.lazyIndent)
        => NextAdjusted

C30_LateIndentPushes ==
    /\ op = "Read" /\ ~was.s.lazyIndent /\ panic = ""
    /\ emit.Type = "LATE_INDENT"
    /\ Len(was.s.indents) = 1
    /\ indents = Append(was.s.indents, nextIndent)

\* The sequence the body closures of scope f write to: the Quote of the
\* current BlockQuote in a block-quote scope (none yet when current is nil),
\* the body elsewhere.
Destination(f) ==
    IF f.fn = "parseBlockQuotes"
    THEN IF f.current = 0 THEN <<>> ELSE f.quotes[f.current].Quote
    ELSE f.body

C32_LateIndentWithoutDedent ==
    /\ (/\ emit # Nil /\ ~was.s.lazyIndent /\ nextToken.Type = "LINE"
        /\ Len(was.s.indents) >= 2
        /\ nextIndent < Last(was.s.indents)
        /\ nextIndent > Last(Front(was.s.indents)))
          => emit.Type = "LATE_INDENT"
    /\ (emit.Type = "LATE_INDENT") => was.emit.Type # "DEDENT"

\* C33: the indent pushed for a bullet item is the width of the marker in
\* characters plus one for the separating whitespace when there is one: 1
\* for a bare marker and 2 for a marker followed by a space, for every glyph
\* of the bullet set, the non-ASCII ones included.
C33_MarkerWidthInCharacters ==
    detected.called =>
        \E first \in {DecodeRuneInString(peek.Data)} :
            first.r \in BulletRunes =>
               /\ Len(peek.Data) = first.n
                     => detected.marker = first.r /\ detected.indent = 1
               /\ (Len(peek.Data) > first.n /\ peek.Data[first.n + 1] = 32)
                     => detected.marker = first.r /\ detected.indent = 2

\* C34: a line that would be an alphabetic or a roman enumerator is no list
\* marker and is parsed as paragraph text, and parseEnumeratedList is only
\* ever entered with the arabic sequence and one of the three marker kinds,
\* so that it never fails with 'invalid enum seq' or 'invalid enum marker'.
C34_ArabicOnly ==
    /\ panic \notin {"invalid enum seq", "invalid enum marker"}
    /\ \A i \in 1..Len(frames) :
          frames[i].fn = "parseEnumeratedList"
             => /\ frames[i].seq = enumSeqArabic
                /\ frames[i].marker
                      \in {enumMarkerPeriod, enumMarkerParens, enumMarkerRParen}
    /\ (/\ fragment.returned /\ input # <<>>
        /\ \A i \in 1..Len(input) : input[i] \in LetterLines)
          => fragment.Body = <<Paragraph(input)>>

C34_LetterLinesParagraph ==
    /\ fragment.returned
    /\ input = <<<<97, 46, 32, 97>>, <<73, 41, 32, 97>>>>
    /\ fragment.Body = <<Paragraph(input)>>

\* C35: in every prefix of the token stream the DEDENT tokens emitted are at
\* most the INDENT and LATE_INDENT tokens emitted plus the PushIndent and
\* LazyIndent calls made, and the two counts are equal when the first EOF is
\* emitted.  Here as the claim has it, every call counted.
C35_TokenBalance ==
    /\ tally.down <= tally.up
    /\ tally.eof = "first" => tally.down = tally.up

\* C35 as amended: the same, a LazyIndent call made while a lazy indent is
\* already pending not counted.
C35_BalanceOfPendingIndents ==
    /\ tally.down <= tally.up - tally.again
    /\ tally.eof = "first" => tally.down = tally.up - tally.again

C35_BalancedAtEOF ==
    /\ tally.eof = "first" /\ emit.Type = "EOF"
    /\ tally.calls = 2 /\ tally.again = 0
    /\ tally.up = 3 /\ tally.down = 3

\* C36: during ParseFragment on an input without literal blocks or read
\* errors no DEDENT ever reaches the unexpected-token fallback of parse and
\* no scope meets EOF before its own terminator ('unexpected EOF'); every
\* DEDENT ends the nested scope its INDENT or PushIndent opened, also after
\* an attribution line followed by a blank line.
C36_ScopesInStep ==
    /\ ~(Dispatching("unexpected") /\ peek.Type = "DEDENT")
    /\ ~(Running({"dispatch"}) /\ dispatch(top, peek) = "eof")

\* C37: every iteration of the loop of parse either ends the scope or
\* consumes at least one token (a list branch through the list parser it
\* calls, which reads the marker line), the unexpected-token fallback
\* consuming exactly the peeked token and appending exactly one Error; so
\* for every input read without error ParseFragment returns, the token
\* stream consumed up to and including the first EOF.
C37_ParseFragmentTerminates ==
    /\ [][ /\ Running({"dispatch"})
                => \/ Len(frames') < Len(frames)
                   \/ op' \in {"Read", "PushBackSuffix"} /\ peek' # peek
                   \/ /\ Len(frames') = Len(frames) + 1
                      /\ Last(frames').fn \in {"parseBulletList", "parseEnumeratedList"}
           /\ (Running({"check"}) /\ top.items = <<>>)
                => (op' = "PushBackSuffix" /\ Len(frames') = Len(frames) + 1)
           /\ Dispatching("unexpected")
                => /\ op' = "Read" /\ ret' = peek /\ peek' = Nil
                   /\ Destination(Last(frames'))
                        = Append(Destination(top),
                                 Error("unexpected token: " \o peek.Type, Pos(peek)))
         ]_vars
    /\ <>(fragment.returned /\ frames = <<>> /\ terminal.Type = "EOF")

\* The Errors that only a structural element or structure mode produces.
StructureMessages ==
    {"body elements may not appear after sections",
     "structure elements may not appear here"}

\* Some element of the sequence, at any depth, is an Error with one of the
\* structure messages.
RECURSIVE SaysStructure(_)
SaysStructure(elems) ==
    \E i \in 1..Len(elems) :
        \/ elems[i].kind = "Error" /\ elems[i].Message \in StructureMessages
        \/ elems[i].kind = "BlockQuote" /\ SaysStructure(elems[i].Quote)
        \/ /\ elems[i].kind \in {"BulletList", "EnumeratedList"}
           /\ \E k \in 1..Len(elems[i].Items) : SaysStructure(elems[i].Items[k].Body)

\* C38: no parse path appends a structural element: no scope of a
\* ParseFragment run is ever in structure mode or holds a structure element,
\* the Fragment returned has an empty structure sequence, and neither
\* 'body elements may not appear after sections' nor 'structure elements
\* may not appear here' is produced anywhere in the tree.
C38_NoStructure ==
    /\ \A i \in 1..Len(frames) :
           /\ frames[i].mode = "body"
           /\ frames[i].structure = <<>>
           /\ ~SaysStructure(frames[i].body)
           /\ ~SaysStructure(frames[i].quotes)
           /\ \A k \in 1..Len(frames[i].items) : ~SaysStructure(frames[i].items[k].Body)
    /\ fragment.returned
           => (fragment.ChildElements = <<>> /\ ~SaysStructure(fragment.Body))

\* A Fragment returned with an Error and other elements, all in its body.
C38_ErrorInBody ==
    /\ fragment.returned /\ fragment.ChildElements = <<>>
    /\ Len(fragment.Body) >= 2
    /\ \E i \in 1..Len(fragment.Body) : fragment.Body[i].kind = "Error"

\* C39: whenever a DEDENT arms lateIndent, the very next token next
\* produces is the LATE_INDENT of the same physical line, which clears the
\* flag; LATE_INDENT is produced only with the flag armed, that is right
\* after such a DEDENT; and the flag is never armed when a LINE, BLANK,
\* LITERAL or EOF token has been produced.  Here as the claim has it, for
\* every client.
C39_LateIndentAtOnce ==
    /\ (emit # Nil /\ was.s.lateIndent)
          => /\ emit.Type = "LATE_INDENT" /\ ~lateIndent
             /\ emit.Line = was.s.nextToken.Line
    /\ emit.Type = "LATE_INDENT" => was.s.lateIndent
    /\ lateIndent => tally.last = "DEDENT"
    /\ emit.Type \in {"LINE", "BLANK", "LITERAL", "EOF"} => ~lateIndent

\* C39 as amended: the same, for a client that has made no PushIndent or
\* LazyIndent call while lateIndent was armed.
C39_LateIndentUndisturbed ==
    tally.late = 0
        => /\ (emit # Nil /\ was.s.lateIndent)
                 => /\ emit.Type = "LATE_INDENT" /\ ~lateIndent
                    /\ emit.Line = was.s.nextToken.Line
           /\ emit.Type = "LATE_INDENT" => was.s.lateIndent
           /\ lateIndent => tally.last = "DEDENT"
           /\ emit.Type \in {"LINE", "BLANK", "LITERAL", "EOF"} => ~lateIndent

\* The line of a late indent has been produced, the flag armed by a DEDENT
\* and cleared by the LATE_INDENT before it, after a feedback call made
\* while the flag was down.
C39_LineAfterClearedFlag ==
    /\ tally.late = 0 /\ tally.calls >= 1
    /\ emit.Type = "LINE" /\ was.emit.Type = "LATE_INDENT"
    /\ was.s.nextToken = emit /\ ~lateIndent

\* C40: in a block-quote scope an attribution is only ever delivered while
\* there is a current BlockQuote to attach it to, so that an attribution
\* line that is the first content of a block quote, or that directly follows
\* another attribution, is handled without failure: when the attribution's
\* text has been read and its DEDENT is peeked, the scope has a current
\* quote, and the run does not end in a nil pointer dereference.
C40_AttributionHasQuote ==
    /\ (Running({"dedent"}) /\ peek.Type = "DEDENT") => top.current # 0
    /\ panic # "invalid memory address or nil pointer dereference"

====
